---- MODULE Spec2Model ----
(***************************************************************************)
(* State-machine model of the boardfarm helpers:                           *)
(*   boardfarm3/lib/utils.py        retry, retry_on_exception,             *)
(*                                  ip_pool_to_list, get_value_from_dict,  *)
(*                                  disable_logs                           *)
(*   boardfarm3/lib/networking.py   IptablesFirewall, DNS                  *)
(*   boardfarm/dbclients/influx_wrapper.py   GenericWrapper.collect_logs   *)
(* Every component has its own variables and its own specification; the    *)
(* variables of the other components stay at their idle values.            *)
(***************************************************************************)
EXTENDS Integers, Sequences, FiniteSets, TLC

VARIABLES
    \* ---- utils.retry
    max_retry,      \* argument max_retry
    retry_i,        \* iterations of `for _ in range(max_retry - 1)` completed
    retry_pc,       \* "loop" | "sleep" | "done"
    fn_log,         \* values returned by func_name, in call order
    retry_ret,      \* value returned by retry (NoReturn until it returns)
    \* ---- utils.retry_on_exception
    retries,        \* argument retries
    re_try,         \* loop variable of `for re_try in range(1, retries)`
    rx_pc,          \* "loop" | "sleep" | "done"
    method_log,     \* outcome of every call of method, in call order
    debug_log,      \* _LOGGER.debug entries (the re_try of each entry)
    rx_result,      \* how retry_on_exception ended
    \* ---- utils.ip_pool_to_list
    pool_first,     \* argument start_ip as passed by the caller
    start_ip,       \* local start_ip, advanced by the loop
    end_ip,         \* argument end_ip
    ip_list,        \* local ip_list
    pool_pc,        \* "loop" | "done" | "raised"
    \* ---- utils.get_value_from_dict
    gv_key,         \* argument key
    gv_dict,        \* argument dictionary: its items in iteration order
    gv_pc,          \* "call" | "done"
    gv_ret,         \* the value returned
    \* ---- utils.disable_logs
    logger_handlers,  \* logger.handlers of the named logger
    scopes,         \* the disable_logs scopes now active, innermost last
    null_count,     \* NullHandler objects created so far
    lg_last,        \* the scope that exited last: handlers before and after
    \* ---- networking.DNS
    auxv4,          \* self.auxv4 (absent or an IPv4Address)
    auxv6,          \* self.auxv6 (absent or an IPv6Address)
    dnsv4,          \* self.dnsv4: name -> list of addresses
    dnsv6,          \* self.dnsv6
    hosts_v4,       \* self.hosts_v4
    hosts_v6,       \* self.hosts_v6
    dns_call,       \* the last configure_hosts call: arguments, lists before, outcome
    \* ---- influx_wrapper.GenericWrapper
    iperf_server_data,  \* self.iperf_server_data: None or [descriptor]
    iperf_client_data,  \* self.iperf_client_data
    iperf_data,     \* the descriptors the caller holds (get_details_dict), by name
    logfiles,       \* the log files on the device: path -> lines
    cl_call,        \* the last collect_logs call: arguments, lines parsed, outcome
    cl_polls,       \* descriptor -> the lines each returned call read and parsed
    \* ---- networking.IptablesFirewall
    console_log,    \* every command given to self._console.execute_command, in order
    fw_call,        \* the last add_drop_rule_* call: arguments, check output, outcome
    \* ---- plugins.core.boardfarm_post_deploy_devices
    devices_dict,   \* device_manager.get_devices_by_type(...): name -> names of its consoles
    sh_pc,          \* "start" | "device_prompt" | "console_prompt" | "session" | "done" | "crashed" | "idle"
    sh_out,         \* what the shell printed and started since the last input it read
    sh_input,       \* the input read by the last step: at which prompt, and the text
    sh_device,      \* local device_name while the console prompt is shown ("" otherwise)
    \* ---- console exchanges: networking.scp, start_tcpdump, stop_tcpdump,
    \*      LinuxWAN.connect_to_board_via_reverse_ssh
    cx_trace,       \* the console operations of the last call, in order
    cx_call,        \* the last call: function, arguments, outcome
    \* ---- functions of one call: utils.get_nth_mac_address, utils.get_pytest_name,
    \*      networking.http_get
    util_call,      \* the last call: <<function, arguments, outcome, value, steps>>
    wan_config,     \* LinuxWAN._config: <<"options" is a key, the directives of its value>>
    wan_static_route,   \* LinuxWAN._static_route, a text as the sequence of its words
    wan_flags,      \* <<_wan_dhcp, _wan_no_eth0, _wan_dhcp_server, _wan_dhcpv6>>
    wan_console,    \* what the last call did on the console and the network, in order
    wan_call        \* the last call: <<method, arguments, outcome, error, ping_status>>

retryVars == <<max_retry, retry_i, retry_pc, fn_log, retry_ret>>
rxVars == <<retries, re_try, rx_pc, method_log, debug_log, rx_result>>

poolVars == <<pool_first, start_ip, end_ip, ip_list, pool_pc>>

gvVars == <<gv_key, gv_dict, gv_pc, gv_ret>>

lgVars == <<logger_handlers, scopes, null_count, lg_last>>
dnsVars == <<auxv4, auxv6, dnsv4, dnsv6, hosts_v4, hosts_v6, dns_call>>
clVars == <<iperf_server_data, iperf_client_data, iperf_data, logfiles, cl_call, cl_polls>>

fwVars == <<console_log, fw_call>>

shVars == <<devices_dict, sh_pc, sh_out, sh_input, sh_device>>

cxVars == <<cx_trace, cx_call>>

utVars == <<util_call>>

wanVars == <<wan_config, wan_static_route, wan_flags, wan_console, wan_call>>

vars == <<retryVars, rxVars, poolVars, gvVars, lgVars, dnsVars, clVars, fwVars, shVars, cxVars, utVars, wanVars>>

notRetry == <<rxVars, poolVars, gvVars, lgVars, dnsVars, clVars, fwVars, shVars, cxVars, utVars, wanVars>>
notRx == <<retryVars, poolVars, gvVars, lgVars, dnsVars, clVars, fwVars, shVars, cxVars, utVars, wanVars>>
notPool == <<retryVars, rxVars, gvVars, lgVars, dnsVars, clVars, fwVars, shVars, cxVars, utVars, wanVars>>
notGv == <<retryVars, rxVars, poolVars, lgVars, dnsVars, clVars, fwVars, shVars, cxVars, utVars, wanVars>>
notLg == <<retryVars, rxVars, poolVars, gvVars, dnsVars, clVars, fwVars, shVars, cxVars, utVars, wanVars>>
notDns == <<retryVars, rxVars, poolVars, gvVars, lgVars, clVars, fwVars, shVars, cxVars, utVars, wanVars>>
notCl == <<retryVars, rxVars, poolVars, gvVars, lgVars, dnsVars, fwVars, shVars, cxVars, utVars, wanVars>>
notFw == <<retryVars, rxVars, poolVars, gvVars, lgVars, dnsVars, clVars, shVars, cxVars, utVars, wanVars>>
notSh == <<retryVars, rxVars, poolVars, gvVars, lgVars, dnsVars, clVars, fwVars, cxVars, utVars, wanVars>>
notCx == <<retryVars, rxVars, poolVars, gvVars, lgVars, dnsVars, clVars, fwVars, shVars, utVars, wanVars>>
notUt == <<retryVars, rxVars, poolVars, gvVars, lgVars, dnsVars, clVars, fwVars, shVars, cxVars, wanVars>>
notWan == <<retryVars, rxVars, poolVars, gvVars, lgVars, dnsVars, clVars, fwVars, shVars, cxVars, utVars>>

-----------------------------------------------------------------------------
(* Python values, as far as truthiness and comparison with "False" see them *)

PyNone == [t |-> "none", v |-> ""]
PyBool(b) == [t |-> "bool", v |-> IF b THEN "True" ELSE "False"]
PyInt(s) == [t |-> "int", v |-> s]
PyStr(s) == [t |-> "str", v |-> s]

\* bool(x)
Truthy(x) ==
    CASE x.t = "none" -> FALSE
      [] x.t = "bool" -> x.v = "True"
      [] x.t = "int" -> x.v # "0"
      [] x.t = "str" -> x.v # ""

\* `output and output != "False"` (utils.py:71)
RetrySuccess(output) == Truthy(output) /\ output # PyStr("False")

\* the values func_name may return
FnValues ==
    {PyNone, PyBool(FALSE), PyBool(TRUE), PyInt("0"), PyInt("1"),
     PyStr(""), PyStr("False"), PyStr("ok")}

NoReturn == [t |-> "noreturn", v |-> ""]

-----------------------------------------------------------------------------
(* utils.retry                                                             *)

MaxRetry == 3

RetryInit ==
    /\ max_retry \in -1..MaxRetry
    /\ retry_i = 0
    /\ retry_pc = "loop"
    /\ fn_log = <<>>
    /\ retry_ret = NoReturn

RetryIdle ==
    /\ max_retry = 0
    /\ retry_i = 0
    /\ retry_pc = "idle"
    /\ fn_log = <<>>
    /\ retry_ret = NoReturn

\* RetryLoopCall without the early `return output`
RetryLoopCallNoReturn ==
    /\ retry_pc = "loop"
    /\ retry_i < max_retry - 1
    /\ \E output \in FnValues : fn_log' = Append(fn_log, output)
    /\ retry_pc' = "sleep"
    /\ UNCHANGED <<max_retry, retry_i, retry_ret>>
    /\ UNCHANGED notRetry

\* one iteration of the for loop: call, test, return or go to sleep
RetryLoopCall ==
    /\ retry_pc = "loop"
    /\ retry_i < max_retry - 1
    /\ \E output \in FnValues :
          /\ fn_log' = Append(fn_log, output)
          /\ IF RetrySuccess(output)
                THEN /\ retry_ret' = output
                     /\ retry_pc' = "done"
                ELSE /\ retry_ret' = retry_ret
                     /\ retry_pc' = "sleep"
    /\ UNCHANGED <<max_retry, retry_i>>
    /\ UNCHANGED notRetry

\* time.sleep(5), then the next iteration
RetrySleep ==
    /\ retry_pc = "sleep"
    /\ retry_pc' = "loop"
    /\ retry_i' = retry_i + 1
    /\ UNCHANGED <<max_retry, fn_log, retry_ret>>
    /\ UNCHANGED notRetry

\* RetryFinalCall after a loop of range(max_retry): one call too many
RetryFinalCallOneMore ==
    /\ retry_pc = "loop"
    /\ ~(retry_i < max_retry - 1)
    /\ \E output \in FnValues :
          /\ fn_log' = Append(fn_log, output)
          /\ IF retry_i < max_retry /\ ~RetrySuccess(output)
                THEN /\ retry_ret' = retry_ret
                     /\ retry_i' = retry_i + 1
                     /\ retry_pc' = "loop"
                ELSE /\ retry_ret' = output
                     /\ retry_i' = retry_i
                     /\ retry_pc' = "done"
    /\ UNCHANGED max_retry
    /\ UNCHANGED notRetry

\* the loop is exhausted (or empty): `return func_name(*args)`
RetryFinalCall ==
    /\ retry_pc = "loop"
    /\ ~(retry_i < max_retry - 1)
    /\ \E output \in FnValues :
          /\ fn_log' = Append(fn_log, output)
          /\ retry_ret' = output
    /\ retry_pc' = "done"
    /\ UNCHANGED <<max_retry, retry_i>>
    /\ UNCHANGED notRetry


\* ---- claims about retry

Max(a, b) == IF a >= b THEN a ELSE b
Min(a, b) == IF a <= b THEN a ELSE b

\* a failure value in the words of the specification: falsy, or the text "False"
IsFailureValue(x) ==
    x \in {PyNone, PyBool(FALSE), PyInt("0"), PyStr(""), PyStr("False")}

AllFailed == \A j \in DOMAIN fn_log : IsFailureValue(fn_log[j])

\* C1: if func_name returns failure values on its first k-1 calls and a
\* truthy value other than "False" on call k, k <= max_retry, then retry has
\* returned that value, func_name was called exactly k times, and it is never
\* called again (the log stays at k entries in every later state).
C1_StopsAtFirstSuccess ==
    \A k \in DOMAIN fn_log :
        ( /\ k <= max_retry
          /\ ~IsFailureValue(fn_log[k])
          /\ \A j \in 1..(k - 1) : IsFailureValue(fn_log[j]) )
        => ( /\ Len(fn_log) = k
             /\ retry_pc = "done"
             /\ retry_ret = fn_log[k] )

\* False, "False", then a truthy value with max_retry = 3: three calls
C1_Witness ==
    /\ max_retry = 3
    /\ retry_pc = "done"
    /\ fn_log = <<PyBool(FALSE), PyStr("False"), PyStr("ok")>>
    /\ retry_ret = PyStr("ok")

\* C2: once retry has returned, func_name has been called at least once and
\* the value of its last call is what retry returned; when every attempt
\* failed it was called exactly max(max_retry, 1) times.
C2_ExhaustedReturnsLast ==
    retry_pc = "done" =>
        /\ Len(fn_log) >= 1
        /\ Len(fn_log) <= Max(max_retry, 1)
        /\ retry_ret = fn_log[Len(fn_log)]
        /\ AllFailed => Len(fn_log) = Max(max_retry, 1)

\* a single failing call with max_retry <= 0, its value handed back
C2_Witness ==
    /\ max_retry = -1
    /\ retry_pc = "done"
    /\ fn_log = <<PyInt("0")>>
    /\ retry_ret = PyInt("0")

-----------------------------------------------------------------------------
(* utils.retry_on_exception                                                *)

MaxRetries == 4

\* what one call of method does: return a value, raise an Exception, or
\* raise a BaseException that `except Exception` does not catch
MethodOutcomes ==
    {[k |-> "ret", v |-> "r1"], [k |-> "ret", v |-> "r2"],
     [k |-> "exc", v |-> "e1"], [k |-> "exc", v |-> "e2"],
     [k |-> "base", v |-> "KeyboardInterrupt"]}

RxNone == [k |-> "none", v |-> ""]

RxInit ==
    /\ retries \in -1..MaxRetries
    /\ re_try = 1
    /\ rx_pc = "loop"
    /\ method_log = <<>>
    /\ debug_log = <<>>
    /\ rx_result = RxNone

RxIdle ==
    /\ retries = 0
    /\ re_try = 1
    /\ rx_pc = "idle"
    /\ method_log = <<>>
    /\ debug_log = <<>>
    /\ rx_result = RxNone

\* `except Exception` catches o
Caught(o) == o.k = "exc"

\* one guarded iteration: `try: return method(*args)  except Exception: ...`
RxGuardedCall ==
    /\ rx_pc = "loop"
    /\ re_try < retries
    /\ \E o \in MethodOutcomes :
          /\ method_log' = Append(method_log, o)
          /\ IF Caught(o)
                THEN /\ debug_log' = Append(debug_log, re_try)
                     /\ rx_pc' = "sleep"
                     /\ rx_result' = rx_result
                ELSE /\ debug_log' = debug_log
                     /\ rx_pc' = "done"
                     /\ rx_result' = o
    /\ UNCHANGED <<retries, re_try>>
    /\ UNCHANGED notRx

\* time.sleep(tout), then the next iteration
RxSleep ==
    /\ rx_pc = "sleep"
    /\ rx_pc' = "loop"
    /\ re_try' = re_try + 1
    /\ UNCHANGED <<retries, method_log, debug_log, rx_result>>
    /\ UNCHANGED notRx

\* RxFinalCall with the last call guarded too: its error is logged and lost
RxFinalCallGuarded ==
    /\ rx_pc = "loop"
    /\ ~(re_try < retries)
    /\ \E o \in MethodOutcomes :
          /\ method_log' = Append(method_log, o)
          /\ IF Caught(o)
                THEN /\ debug_log' = Append(debug_log, re_try)
                     /\ rx_result' = rx_result
                ELSE /\ debug_log' = debug_log
                     /\ rx_result' = o
    /\ rx_pc' = "done"
    /\ UNCHANGED <<retries, re_try>>
    /\ UNCHANGED notRx

\* the unguarded `return method(*args)` after the loop
RxFinalCall ==
    /\ rx_pc = "loop"
    /\ ~(re_try < retries)
    /\ \E o \in MethodOutcomes :
          /\ method_log' = Append(method_log, o)
          /\ rx_result' = o
    /\ rx_pc' = "done"
    /\ UNCHANGED <<retries, re_try, debug_log>>
    /\ UNCHANGED notRx


\* ---- claims about retry_on_exception

AllRaised == \A j \in DOMAIN method_log : method_log[j].k = "exc"

\* C3: when method raises an error on every call, it is called at most
\* max(retries, 1) times and exactly that often once retry_on_exception has
\* ended; calls 1..retries-1 leave one debug entry each and the final call
\* none; the final error reaches the caller. A call that returns normally
\* ends retry_on_exception with that value and is the last call.
C3_RaiseOnEveryCall ==
    /\ AllRaised =>
          /\ Len(method_log) <= Max(retries, 1)
          /\ debug_log = [j \in 1..Min(Len(method_log), Max(retries, 1) - 1) |-> j]
          /\ rx_pc = "done" =>
                /\ Len(method_log) = Max(retries, 1)
                /\ rx_result = method_log[Len(method_log)]
          /\ rx_pc # "done" => rx_result = RxNone
    /\ \A k \in DOMAIN method_log :
          method_log[k].k = "ret" =>
              /\ Len(method_log) = k
              /\ rx_pc = "done"
              /\ rx_result = method_log[k]

\* retries = 3, three raising calls: two debug entries, the third error out
C3_Witness ==
    /\ retries = 3
    /\ rx_pc = "done"
    /\ Len(method_log) = 3
    /\ AllRaised
    /\ debug_log = <<1, 2>>
    /\ rx_result = [k |-> "exc", v |-> "e2"]


-----------------------------------------------------------------------------
(* ipaddress.IPv4Address / IPv6Address.  An address is the tuple of its     *)
(* groups, most significant first (4 groups of 8 bits, 8 groups of 16       *)
(* bits): the integer the library keeps, written in base 256 or 65536.      *)

V4Base == 256
V6Base == 65536

\* the result of constructing an address from an integer out of range
\* (AddressValueError)
AddrError == <<>>

RECURSIVE AddCarry(_, _, _, _)
AddCarry(a, i, c, base) ==
    IF c = 0 THEN a
    ELSE IF i = 0 THEN AddrError
    ELSE LET s == a[i] + c
         IN AddCarry([a EXCEPT ![i] = s % base], i - 1, s \div base, base)

\* address + n for n >= 0 : __class__(int(self) + n)
AddrAdd(a, n, base) == AddCarry(a, Len(a), n, base)

\* a >= b on the integers of two addresses of one version
RECURSIVE AddrGeFrom(_, _, _)
AddrGeFrom(a, b, i) ==
    IF i > Len(a) THEN TRUE
    ELSE IF a[i] # b[i] THEN a[i] > b[i]
    ELSE AddrGeFrom(a, b, i + 1)

AddrGe(a, b) == AddrGeFrom(a, b, 1)

-----------------------------------------------------------------------------
(* utils.ip_pool_to_list                                                   *)

PoolSpan == 3

\* addresses around a carry between groups, and the highest addresses
PoolLow ==
    {<<10, 0, 0, 255 - d>> : d \in 0..PoolSpan} \cup {<<10, 0, 1, d>> : d \in 0..PoolSpan}
PoolTop == {<<255, 255, 255, 255 - d>> : d \in 0..PoolSpan}

\* the (start_ip, end_ip) pairs tried: both in one window, or start above end
PoolPairs ==
    (PoolLow \X PoolLow) \cup (PoolTop \X PoolTop) \cup (PoolTop \X PoolLow)

PoolInit ==
    /\ \E p \in PoolPairs :
          /\ pool_first = p[1]
          /\ start_ip = p[1]
          /\ end_ip = p[2]
    /\ ip_list = <<>>
    /\ pool_pc = "loop"

PoolIdle ==
    /\ pool_first = <<0, 0, 0, 0>>
    /\ start_ip = <<0, 0, 0, 0>>
    /\ end_ip = <<0, 0, 0, 0>>
    /\ ip_list = <<>>
    /\ pool_pc = "idle"

\* `end_ip >= start_ip and start_ip != end_ip + 1`, with end_ip + 1 in range
PoolCond ==
    /\ AddrGe(end_ip, start_ip)
    /\ start_ip # AddrAdd(end_ip, 1, V4Base)

\* the loop condition needs end_ip + 1 and the library refuses to build it
PoolCondRaises ==
    /\ AddrGe(end_ip, start_ip)
    /\ AddrAdd(end_ip, 1, V4Base) = AddrError

\* condition true: ip_list.append(start_ip); start_ip += 1
PoolIterate ==
    /\ pool_pc = "loop"
    /\ ~PoolCondRaises
    /\ PoolCond
    /\ ip_list' = Append(ip_list, start_ip)
    /\ IF AddrAdd(start_ip, 1, V4Base) = AddrError
          THEN /\ pool_pc' = "raised"
               /\ start_ip' = start_ip
          ELSE /\ pool_pc' = "loop"
               /\ start_ip' = AddrAdd(start_ip, 1, V4Base)
    /\ UNCHANGED <<pool_first, end_ip>>
    /\ UNCHANGED notPool

\* condition false: return ip_list
PoolReturn ==
    /\ pool_pc = "loop"
    /\ ~PoolCondRaises
    /\ ~PoolCond
    /\ pool_pc' = "done"
    /\ UNCHANGED <<pool_first, start_ip, end_ip, ip_list>>
    /\ UNCHANGED notPool

\* evaluating the condition raises AddressValueError out of ip_pool_to_list
PoolRaise ==
    /\ pool_pc = "loop"
    /\ PoolCondRaises
    /\ pool_pc' = "raised"
    /\ UNCHANGED <<pool_first, start_ip, end_ip, ip_list>>
    /\ UNCHANGED notPool

\* ---- claims about ip_pool_to_list

\* the last two groups of an address as a number (the windows of PoolPairs
\* differ from each other only there)
Low16(a) == a[3] * 256 + a[4]

\* the inclusive range pool_first..end_ip, written without the loop
PoolExpected ==
    IF AddrGe(end_ip, pool_first)
       THEN [j \in 1..(Low16(end_ip) - Low16(pool_first) + 1) |->
                <<end_ip[1], end_ip[2],
                  (Low16(pool_first) + j - 1) \div 256,
                  (Low16(pool_first) + j - 1) % 256>>]
       ELSE <<>>

\* C4: ip_pool_to_list ends by returning, for every pair of valid addresses,
\* and what it returns is the inclusive range start..end in order (empty
\* when start > end).
C4_InclusiveRange ==
    pool_pc # "loop" => (pool_pc = "done" /\ ip_list = PoolExpected)

\* the part of C4 the code does satisfy: whenever it returns, it returns the
\* inclusive range
C4_RangeWhenReturned ==
    pool_pc = "done" => ip_list = PoolExpected

C4_Witness ==
    /\ pool_pc = "done"
    /\ pool_first = <<10, 0, 0, 254>>
    /\ ip_list = <<<<10, 0, 0, 254>>, <<10, 0, 0, 255>>, <<10, 0, 1, 0>>, <<10, 0, 1, 1>>>>


-----------------------------------------------------------------------------
(* utils.get_value_from_dict                                               *)
(* A dictionary is the sequence of its items in iteration order; a value   *)
(* is None, an integer or a dictionary.                                    *)

DNone == [t |-> "none", n |-> 0, items |-> <<>>]
DInt(n) == [t |-> "int", n |-> n, items |-> <<>>]
DDict(items) == [t |-> "dict", n |-> 0, items |-> items]

MaxKeys == 3

DictKeys == {"x", "a", "b"}
DictLeaves == {DNone, DInt(5), DInt(7)}

\* the dictionaries with at most n keys over all their levels, no key twice
\* in one mapping
RECURSIVE Dicts(_)
Dicts(n) ==
    IF n = 0 THEN {<<>>}
    ELSE {<<>>} \cup
         UNION { UNION { UNION {
             { <<[name |-> k, value |-> v]>> \o rest :
                 rest \in {r \in Dicts(n - 1 - m) : \A i \in DOMAIN r : r[i].name # k} }
             : v \in DictLeaves \cup {DDict(f) : f \in Dicts(m)} }
             : m \in 0..(n - 1) }
             : k \in DictKeys }

GvInit ==
    /\ gv_key \in {"x", "missing"}
    /\ gv_dict \in Dicts(MaxKeys)
    /\ gv_pc = "call"
    /\ gv_ret = DNone

GvIdle ==
    /\ gv_key = ""
    /\ gv_dict = <<>>
    /\ gv_pc = "idle"
    /\ gv_ret = DNone

\* a lookup of the mapping's own keys only: no descent into nested mappings
GetFlat(key, items, i) ==
    IF \E j \in i..Len(items) : items[j].name = key
       THEN items[CHOOSE j \in i..Len(items) : items[j].name = key].value
       ELSE DNone

\* the body of get_value_from_dict from the i-th item of dictionary.items()
RECURSIVE GetFrom(_, _, _)
GetFrom(key, items, i) ==
    IF i > Len(items) THEN DNone
    ELSE LET name == items[i].name
             value == items[i].value
         IN IF name = key THEN value
            ELSE IF value.t = "dict"
                 THEN LET return_value == GetFrom(key, value.items, 1)
                      IN IF return_value # DNone
                            THEN return_value
                            ELSE GetFrom(key, items, i + 1)
                 ELSE GetFrom(key, items, i + 1)

get_value_from_dict(key, dictionary) == GetFrom(key, dictionary, 1)

GvCall ==
    /\ gv_pc = "call"
    /\ gv_ret' = get_value_from_dict(gv_key, gv_dict)
    /\ gv_pc' = "done"
    /\ UNCHANGED <<gv_key, gv_dict>>
    /\ UNCHANGED notGv

\* ---- claims about get_value_from_dict

\* the items of a dictionary at every depth, in depth-first iteration order
\* (an item before the items of its value)
RECURSIVE Flatten(_)
Flatten(items) ==
    IF items = <<>> THEN <<>>
    ELSE <<items[1]>>
         \o (IF items[1].value.t = "dict" THEN Flatten(items[1].value.items) ELSE <<>>)
         \o Flatten(Tail(items))

Matches == SelectSeq(Flatten(gv_dict), LAMBDA it : it.name = gv_key)

\* no key equal to `key` holds None
NoMatchHoldsNone == \A j \in DOMAIN Matches : Matches[j].value # DNone

\* C5 as claimed: the value of the first match of the depth-first traversal
\* is returned, also when a matching key holds None, and None is returned
\* exactly when no key matches.
C5_FirstMatchAlways ==
    gv_pc = "done" =>
        /\ Matches # <<>> => gv_ret = Matches[1].value
        /\ gv_ret = DNone <=> Matches = <<>>

\* C5 as amended: for a dictionary in which no key equal to `key` holds None,
\* the value of the first match of the depth-first traversal is returned and
\* None is returned exactly when no key matches; with no match None is
\* returned for every dictionary.
C5_FirstMatchUnlessNone ==
    gv_pc = "done" =>
        /\ Matches = <<>> => gv_ret = DNone
        /\ NoMatchHoldsNone =>
              /\ Matches # <<>> => gv_ret = Matches[1].value
              /\ gv_ret = DNone <=> Matches = <<>>

\* {"a": {"x": 5}, "x": 7}: the nested match under the earlier key wins
C5_Witness ==
    /\ gv_pc = "done"
    /\ gv_key = "x"
    /\ gv_dict = <<[name |-> "a", value |-> DDict(<<[name |-> "x", value |-> DInt(5)]>>)],
                   [name |-> "x", value |-> DInt(7)]>>
    /\ gv_ret = DInt(5)


-----------------------------------------------------------------------------
(* utils.disable_logs                                                      *)
(* The body of the scope may open further disable_logs scopes on the same  *)
(* logger, complete, or raise.                                             *)

MaxHandlers == 3
MaxScopes == 3

AppHandler(i) == [kind |-> "app", id |-> i]
NullHandler(i) == [kind |-> "null", id |-> i]

\* the handler lists addHandler can have built: no handler twice
HandlerLists ==
    {hl \in UNION {[1..n -> {AppHandler(i) : i \in 1..MaxHandlers}] : n \in 0..MaxHandlers} :
        \A i, j \in DOMAIN hl : i # j => hl[i] # hl[j]}

InSeq(h, hl) == \E i \in DOMAIN hl : hl[i] = h

\* Logger.removeHandler: `if hdlr in self.handlers: self.handlers.remove(hdlr)`
RemoveHandler(hl, h) ==
    IF InSeq(h, hl)
       THEN LET first == CHOOSE i \in DOMAIN hl : hl[i] = h /\ \A j \in 1..(i - 1) : hl[j] # h
            IN SubSeq(hl, 1, first - 1) \o SubSeq(hl, first + 1, Len(hl))
       ELSE hl

\* Logger.addHandler: `if not (hdlr in self.handlers): self.handlers.append(hdlr)`
AddHandler(hl, h) == IF InSeq(h, hl) THEN hl ELSE Append(hl, h)

\* list(map(logger.removeHandler, handlers)) / list(map(logger.addHandler, handlers))
RECURSIVE RemoveAll(_, _)
RemoveAll(hl, handlers) ==
    IF handlers = <<>> THEN hl
    ELSE RemoveAll(RemoveHandler(hl, Head(handlers)), Tail(handlers))

RECURSIVE AddAll(_, _)
AddAll(hl, handlers) ==
    IF handlers = <<>> THEN hl
    ELSE AddAll(AddHandler(hl, Head(handlers)), Tail(handlers))

LgNone == [valid |-> FALSE, raised |-> FALSE, before |-> <<>>, after |-> <<>>]

LgInit ==
    /\ logger_handlers \in HandlerLists
    /\ scopes = <<>>
    /\ null_count = 0
    /\ lg_last = LgNone

LgIdle ==
    /\ logger_handlers = <<>>
    /\ scopes = <<>>
    /\ null_count = -1
    /\ lg_last = LgNone

\* `with disable_logs(name):` up to the yield
LgEnter ==
    /\ null_count >= 0
    /\ null_count < MaxScopes
    /\ LET handlers == logger_handlers
           null_handler == NullHandler(null_count + 1)
       IN /\ logger_handlers' =
                AddHandler(RemoveAll(logger_handlers, handlers), null_handler)
          /\ scopes' = Append(scopes,
                [handlers |-> handlers, null_handler |-> null_handler,
                 entered_with |-> logger_handlers])
    /\ null_count' = null_count + 1
    /\ UNCHANGED lg_last
    /\ UNCHANGED notLg

\* the exit of the innermost scope with the restore skipped when the body
\* raised (no try/finally around the yield)
LgExitNoFinally(raised) ==
    /\ scopes # <<>>
    /\ LET scope == scopes[Len(scopes)]
       IN /\ logger_handlers' =
                IF raised THEN logger_handlers
                ELSE AddAll(RemoveHandler(logger_handlers, scope.null_handler), scope.handlers)
          /\ lg_last' = [valid |-> TRUE, raised |-> raised,
                         before |-> scope.entered_with, after |-> logger_handlers']
    /\ scopes' = SubSeq(scopes, 1, Len(scopes) - 1)
    /\ UNCHANGED null_count
    /\ UNCHANGED notLg

\* the body of the innermost scope completes (raised = FALSE) or raises
\* (raised = TRUE); either way the finally block runs
LgExit(raised) ==
    /\ scopes # <<>>
    /\ LET scope == scopes[Len(scopes)]
       IN /\ logger_handlers' =
                AddAll(RemoveHandler(logger_handlers, scope.null_handler), scope.handlers)
          /\ lg_last' = [valid |-> TRUE, raised |-> raised,
                         before |-> scope.entered_with, after |-> logger_handlers']
    /\ scopes' = SubSeq(scopes, 1, Len(scopes) - 1)
    /\ UNCHANGED null_count
    /\ UNCHANGED notLg

LgExitAny == \E raised \in BOOLEAN : LgExit(raised)

\* ---- claims about disable_logs

\* C6: while a scope is active the logger's handlers are exactly the no-op
\* handler of the innermost active scope; when a scope has exited, normally
\* or by an error of its body, the logger's handlers are the handlers it had
\* when that scope was entered, in the same order, the no-op handler gone.
C6_HandlersRestored ==
    /\ scopes # <<>> => logger_handlers = <<scopes[Len(scopes)].null_handler>>
    /\ lg_last.valid =>
          /\ lg_last.after = lg_last.before
          /\ scopes = <<>> => \A i \in DOMAIN logger_handlers : logger_handlers[i].kind = "app"

\* a scope over two handlers left by an error of its body
C6_Witness ==
    /\ lg_last.valid
    /\ lg_last.raised
    /\ scopes = <<>>
    /\ lg_last.before = <<AppHandler(2), AppHandler(1)>>
    /\ logger_handlers = <<AppHandler(2), AppHandler(1)>>


-----------------------------------------------------------------------------
(* networking.DNS                                                          *)
(* A list entry is the text of an address ("str": what the caller passed   *)
(* or what str(address) gave) or an address object ("ip").                 *)

MaxCount == 2
MaxConfigure == 1

Absent == [some |-> FALSE, a |-> <<>>]
Some(a) == [some |-> TRUE, a |-> a]

AddrText(a) == [t |-> "str", a |-> a]
AddrObject(a) == [t |-> "ip", a |-> a]

\* f"{self._device_name}{self._dns_name_suffix}" for device name "wan"
PrimaryName == "wan.boardfarm.com"

\* defaultdict(list): d[k], d[k] = v, d[k].append(x)
DGet(d, k) == IF k \in DOMAIN d THEN d[k] ELSE <<>>
DSet(d, k, v) == [n \in DOMAIN d \cup {k} |-> IF n = k THEN v ELSE d[n]]
DAppend(d, k, x) == DSet(d, k, Append(DGet(d, k), x))
DEmpty == [n \in {} |-> <<>>]

\* DNS._add_dns_addresses
AddDnsAddresses(d, address) ==
    IF address.some THEN DAppend(d, PrimaryName, AddrText(address.a)) ELSE d

\* DNS._add_aux_dns_addresses, one IP version
AddAuxDnsAddresses(d, aux, aux_url) ==
    IF aux.some
       THEN LET d1 == DAppend(d, PrimaryName, AddrObject(aux.a))
            IN IF aux_url.some THEN DAppend(d1, aux_url.a, AddrObject(aux.a)) ELSE d1
       ELSE d

\* the arguments of the constructor that are tried
DnsV4Addresses == {Absent, Some(<<10, 0, 0, 1>>)}
DnsV6Addresses == {Absent, Some(<<8193, 3512, 0, 0, 0, 0, 0, 1>>)}
DnsV4Aux == {Absent, Some(<<10, 0, 0, 100>>), Some(<<255, 255, 255, 254>>)}
DnsV6Aux == {Absent, Some(<<8193, 3512, 0, 0, 0, 0, 0, 65535>>)}
DnsAuxUrls == {[some |-> FALSE, a |-> ""], Some("acs_server.boardfarm.com")}

DnsNoCall ==
    [result |-> "none", n |-> 0, reachable_ipv4 |-> 0, unreachable_ipv4 |-> 0,
     reachable_ipv6 |-> 0, unreachable_ipv6 |-> 0, before_v4 |-> <<>>, before_v6 |-> <<>>]

\* DNS.__init__
DnsInit ==
    /\ auxv4 \in DnsV4Aux
    /\ auxv6 \in DnsV6Aux
    /\ \E ipv4_address \in DnsV4Addresses, ipv6_address \in DnsV6Addresses,
          aux_url \in DnsAuxUrls :
          /\ dnsv4 = AddAuxDnsAddresses(AddDnsAddresses(DEmpty, ipv4_address), auxv4, aux_url)
          /\ dnsv6 = AddAuxDnsAddresses(AddDnsAddresses(DEmpty, ipv6_address), auxv6, aux_url)
    /\ hosts_v4 = dnsv4
    /\ hosts_v6 = dnsv6
    /\ dns_call = DnsNoCall

DnsIdle ==
    /\ auxv4 = Absent
    /\ auxv6 = Absent
    /\ dnsv4 = DEmpty
    /\ dnsv6 = DEmpty
    /\ hosts_v4 = DEmpty
    /\ hosts_v6 = DEmpty
    /\ dns_call = [DnsNoCall EXCEPT !.result = "idle"]

\* list[:n] for n >= 0
Prefix(l, n) == SubSeq(l, 1, IF n <= Len(l) THEN n ELSE Len(l))

\* AppendUnreachable with `aux + val` in place of `aux + (val + 1)`
AppendUnreachableFromZero(l, aux, base, val, unreachable) ==
    IF ~aux.some /\ unreachable > 0 THEN [ok |-> FALSE, list |-> l]
    ELSE [ok |-> \A j \in 0..(unreachable - 1) : AddrAdd(aux.a, j, base) # AddrError,
          list |-> l \o [j \in 1..unreachable |-> AddrText(AddrAdd(aux.a, j - 1, base))]]

\* `for val in range(unreachable): list.append(str(aux + (val + 1)))` from
\* iteration val on; ok is FALSE when aux + (val + 1) raises (aux is None, or
\* the sum is no address), the entries appended before that stay
RECURSIVE AppendUnreachable(_, _, _, _, _)
AppendUnreachable(l, aux, base, val, unreachable) ==
    IF val >= unreachable THEN [ok |-> TRUE, list |-> l]
    ELSE IF ~aux.some \/ AddrAdd(aux.a, val + 1, base) = AddrError
         THEN [ok |-> FALSE, list |-> l]
         ELSE AppendUnreachable(Append(l, AddrText(AddrAdd(aux.a, val + 1, base))),
                                aux, base, val + 1, unreachable)

\* DNS.configure_hosts
ConfigureHosts(reachable_ipv4, unreachable_ipv4, reachable_ipv6, unreachable_ipv6) ==
    LET val_v4 == Prefix(DGet(hosts_v4, PrimaryName), reachable_ipv4)
        val_v6 == Prefix(DGet(hosts_v6, PrimaryName), reachable_ipv6)
        loop_v4 == AppendUnreachable(val_v4, auxv4, V4Base, 0, unreachable_ipv4)
        loop_v6 == AppendUnreachable(val_v6, auxv6, V6Base, 0, unreachable_ipv6)
    IN /\ dns_call.result # "idle"
       /\ dns_call.n < MaxConfigure
       /\ hosts_v4' = DSet(hosts_v4, PrimaryName, loop_v4.list)
       /\ hosts_v6' = DSet(hosts_v6, PrimaryName,
                           IF loop_v4.ok THEN loop_v6.list ELSE val_v6)
       /\ dns_call' =
             [result |-> IF loop_v4.ok /\ loop_v6.ok THEN "returned" ELSE "raised",
              n |-> dns_call.n + 1,
              reachable_ipv4 |-> reachable_ipv4, unreachable_ipv4 |-> unreachable_ipv4,
              reachable_ipv6 |-> reachable_ipv6, unreachable_ipv6 |-> unreachable_ipv6,
              before_v4 |-> DGet(hosts_v4, PrimaryName),
              before_v6 |-> DGet(hosts_v6, PrimaryName)]
       /\ UNCHANGED <<auxv4, auxv6, dnsv4, dnsv6>>
       /\ UNCHANGED notDns

DnsConfigure ==
    \E r4, u4, r6, u6 \in 0..MaxCount : ConfigureHosts(r4, u4, r6, u6)

\* ---- claims about DNS.configure_hosts

\* the first r entries of `before`, then the texts of aux+1 .. aux+u
HostsExpected(before, r, aux, u, base) ==
    [j \in 1..(IF r <= Len(before) THEN r ELSE Len(before)) |-> before[j]]
    \o [j \in 1..u |-> AddrText(AddrAdd(aux.a, j, base))]

\* C7: after a configure_hosts call that returned, the hosts view of the
\* primary name is, for IPv4 and for IPv6, the first `reachable` entries of
\* the list as it was before the call, in order, followed by exactly
\* `unreachable` synthetic addresses aux+1 .. aux+unreachable in order.
C7_ConfigureHosts ==
    dns_call.result = "returned" =>
        /\ hosts_v4[PrimaryName] =
              HostsExpected(dns_call.before_v4, dns_call.reachable_ipv4,
                            auxv4, dns_call.unreachable_ipv4, V4Base)
        /\ hosts_v6[PrimaryName] =
              HostsExpected(dns_call.before_v6, dns_call.reachable_ipv6,
                            auxv6, dns_call.unreachable_ipv6, V6Base)

\* seeded with 10.0.0.1 and auxiliary 10.0.0.100, configure_hosts(1, 2, 0, 0)
\* as the first call: [10.0.0.1, 10.0.0.101, 10.0.0.102]
C7_Witness ==
    /\ dns_call.result = "returned"
    /\ dns_call.before_v4 = <<AddrText(<<10, 0, 0, 1>>), AddrObject(<<10, 0, 0, 100>>)>>
    /\ dns_call.reachable_ipv4 = 1 /\ dns_call.unreachable_ipv4 = 2
    /\ dns_call.reachable_ipv6 = 0 /\ dns_call.unreachable_ipv6 = 0
    /\ hosts_v4[PrimaryName] =
          <<AddrText(<<10, 0, 0, 1>>), AddrText(<<10, 0, 0, 101>>), AddrText(<<10, 0, 0, 102>>)>>
    /\ hosts_v6[PrimaryName] = <<>>


-----------------------------------------------------------------------------
(* influx_wrapper.GenericWrapper.collect_logs                              *)
(* A line of an iperf log is the record of what the code reads from it.    *)
(* A "sum" line is the text                                                *)
(*     [SUM] <start>-<end> sec <value> <unit> <rate> <unit>/sec            *)
(* A decimal text such as 12.34 is the number of its hundredths (1234),    *)
(* which is what float() of it stands for; str(round(x, 3)) is the number  *)
(* of thousandths.                                                         *)

MaxCollect == 3

Line(kind, start, end, value, unit, rate) ==
    [kind |-> kind, start |-> start, end |-> end, value |-> value,
     unit |-> unit, rate |-> rate]

NoLine == Line("none", 0, 0, 0, "", 0)               \* None
BlankLine == Line("blank", 0, 0, 0, "", 0)           \* a line of spaces
HeaderLine == Line("header", 0, 0, 0, "", 0)         \* "Connecting to host ..."
IdLine == Line("id", 0, 0, 0, "", 0)                 \* "[ ID] Interval Transfer Bitrate"
StreamLine == Line("stream", 0, 100, 100, "MBytes", 839)   \* "[  5] 0.00-1.00 sec ..."
SumLine(start, end, value, unit, rate) == Line("sum", start, end, value, unit, rate)

\* self.units (influx_wrapper.py:28-37): every entry is a product of 1024s
\* and of 1 or 8; kept as the count of 1024s and the last factor
units ==
    [bits   |-> [k1024 |-> 0, f |-> 1],
     bytes  |-> [k1024 |-> 0, f |-> 8],
     kbits  |-> [k1024 |-> 1, f |-> 1],
     kbytes |-> [k1024 |-> 1, f |-> 8],
     mbits  |-> [k1024 |-> 2, f |-> 1],
     mbytes |-> [k1024 |-> 2, f |-> 8],
     gbits  |-> [k1024 |-> 3, f |-> 1],
     gbytes |-> [k1024 |-> 3, f |-> 8]]

\* the unit tokens that occur in the logs, and str.lower() of each
UnitTokens ==
    {"bits", "Bytes", "Kbits", "KBytes", "Mbits", "MBytes", "mbytes",
     "Gbits", "GBytes", "GBYTES", "TBytes", "sec"}

Lower(token) ==
    CASE token = "bits" -> "bits"
      [] token = "Bytes" -> "bytes"
      [] token = "Kbits" -> "kbits"
      [] token = "KBytes" -> "kbytes"
      [] token = "Mbits" -> "mbits"
      [] token = "MBytes" -> "mbytes"
      [] token = "mbytes" -> "mbytes"
      [] token = "Gbits" -> "gbits"
      [] token = "GBytes" -> "gbytes"
      [] token = "GBYTES" -> "gbytes"
      [] token = "TBytes" -> "tbytes"
      [] token = "sec" -> "sec"

RECURSIVE Pow1024(_)
Pow1024(n) == IF n = 0 THEN 1 ELSE 1024 * Pow1024(n - 1)

\* int() in place of round(): the fraction cut off
Truncate(num, den) == num \div den

\* round() of the fraction num/den to an integer: to the nearest, a tie to
\* the even neighbour (the float of a decimal text that is not exact in
\* binary may fall to either side of a tie; SumValues holds no such value)
RoundHalfEven(num, den) ==
    LET q == num \div den
        r == num % den
    IN IF 2 * r < den THEN q
       ELSE IF 2 * r > den THEN q + 1
       ELSE IF q % 2 = 0 THEN q ELSE q + 1

\* round(float(line[3]) * self.units[unit] / self.units["mbits"], 3) in
\* thousandths, for value in hundredths: value * 10 * units[unit] / 1024^2
Normalize(value, unit) ==
    LET u == units[unit]
        m == units["mbits"]
    IN IF u.k1024 >= m.k1024
          THEN RoundHalfEven(value * 10 * u.f * Pow1024(u.k1024 - m.k1024), m.f)
          ELSE RoundHalfEven(value * 10 * u.f, m.f * Pow1024(m.k1024 - u.k1024))

\* `<` mistaken for `<=` in the classification
SampleTypeInclusive(line) == IF line.end - line.start <= 200 THEN "data" ELSE "result"

\* temp["type"]: float(end) - float(start) < 2
SampleType(line) == IF line.end - line.start < 200 THEN "data" ELSE "result"

\* temp["value"]: [end, str(round(...)), line[5]]
SampleValue(line) == <<line.end, Normalize(line.value, Lower(line.unit)), line.rate>>

\* the state of the parsing loop: meta_dict["fields"], last_index, meta_dict["data"]
ParseStart(fields) == [fields |-> fields, last_index |-> NoLine, data |-> <<>>]

\* one pass of `for i in meta:` (influx_wrapper.py:140-166)
ParseLine(st, i) ==
    LET fields ==
            IF i.kind = "id" /\ st.fields = <<>>
               THEN <<"Interval", "Transfer", "Bitrate">>
               ELSE st.fields
    IN IF i.kind = "sum"
          THEN [fields |-> fields,
                last_index |-> i,
                data |-> IF Lower(i.unit) \in DOMAIN units
                            THEN Append(st.data, [type |-> SampleType(i), value |-> SampleValue(i)])
                            ELSE st.data]
          ELSE [st EXCEPT !.fields = fields]

RECURSIVE ParseLines(_, _)
ParseLines(st, meta) ==
    IF meta = <<>> THEN st ELSE ParseLines(ParseLine(st, Head(meta)), Tail(meta))

\* GenericWrapper._get_data: the stripped non-blank lines but the first;
\* both ways of reading (sed through the console, scp and open) give the
\* content of the file
GetData(content) ==
    LET stripped == SelectSeq(content, LAMBDA l : l.kind # "blank")
    IN IF stripped = <<>> THEN <<>> ELSE Tail(stripped)

\* the slice taken from the marker itself: meta[meta.index(last_index):]
AfterLastIndexInclusive(meta, last_index) ==
    IF \E j \in DOMAIN meta : meta[j] = last_index
       THEN LET idx == CHOOSE j \in DOMAIN meta :
                           meta[j] = last_index /\ \A k \in 1..(j - 1) : meta[k] # last_index
            IN SubSeq(meta, idx, Len(meta))
       ELSE meta

\* meta[meta.index(last_index) + 1:] when last_index is in meta
AfterLastIndex(meta, last_index) ==
    IF \E j \in DOMAIN meta : meta[j] = last_index
       THEN LET idx == CHOOSE j \in DOMAIN meta :
                           meta[j] = last_index /\ \A k \in 1..(j - 1) : meta[k] # last_index
            IN SubSeq(meta, idx + 1, Len(meta))
       ELSE meta

\* descriptors as get_details_dict builds them (None is <<>> for fields)
NewDescriptor(logfile) ==
    [logfile |-> logfile, last_index |-> NoLine, fields |-> <<>>, data |-> <<>>]

DescriptorNames == {"server_data", "client_data"}
LogfileOf(name) == IF name = "server_data" THEN "server.log" ELSE "client.log"
Tags == {"server", "client", "other"}

ClNoCall ==
    [result |-> "none", n |-> 0, tag |-> "", name |-> "", before |-> NoLine,
     read |-> <<>>, meta |-> <<>>, commands |-> <<>>]

\* no call has returned for any descriptor
NoPolls == [name \in DescriptorNames |-> <<>>]

\* the [SUM] lines the logs are made of
SumIntervals == {<<0, 100>>, <<0, 199>>, <<0, 200>>, <<100, 300>>, <<900, 1000>>, <<0, 1000>>}
SumValues == {0, 1, 50, 100, 800, 1234, 25000}
SumLinesOfLogs ==
    {SumLine(iv[1], iv[2], v, u, 945) : iv \in SumIntervals, v \in SumValues, u \in UnitTokens}

\* a log with one [SUM] line
LogsOfOneSum ==
    UNION {{<<HeaderLine, s>>, <<HeaderLine, BlankLine, IdLine, StreamLine, s>>} :
              s \in SumLinesOfLogs}

ClInit ==
    /\ iperf_server_data = <<>>
    /\ iperf_client_data = <<>>
    /\ iperf_data = [name \in DescriptorNames |-> NewDescriptor(LogfileOf(name))]
    /\ \E content \in LogsOfOneSum : logfiles = [f \in {"server.log", "client.log"} |-> content]
    /\ cl_call = ClNoCall
    /\ cl_polls = NoPolls

ClIdle ==
    /\ iperf_server_data = <<>>
    /\ iperf_client_data = <<>>
    /\ iperf_data = [name \in DescriptorNames |-> NewDescriptor(LogfileOf(name))]
    /\ logfiles = [f \in {"server.log", "client.log"} |-> <<>>]
    /\ cl_call = [ClNoCall EXCEPT !.result = "idle"]
    /\ cl_polls = NoPolls

\* GenericWrapper._get_data: the device.check_output calls it makes (a file
\* of 2 lines or more is copied by a local scp instead of read with sed)
GetDataCommands(logfile, content) ==
    <<<<"cat", logfile, "|wc -l">>>>
    \o (IF Len(content) = 1 THEN <<<<"sed -n", "1,11p", logfile>>>> ELSE <<>>)

\* collect_logs where every tag but "client" is taken for "server"
CollectLogsElseServer(tag, name) ==
    /\ cl_call.result # "idle"
    /\ cl_call.n < MaxCollect
    /\ LET meta_dict == iperf_data[name]
           read == GetData(logfiles[meta_dict.logfile])
           meta == AfterLastIndex(read, meta_dict.last_index)
           st == ParseLines(ParseStart(meta_dict.fields), meta)
       IN /\ iperf_client_data' = IF tag = "client" THEN <<name>> ELSE iperf_client_data
          /\ iperf_server_data' = IF tag # "client" THEN <<name>> ELSE iperf_server_data
          /\ iperf_data' =
                [iperf_data EXCEPT ![name] =
                    [meta_dict EXCEPT !.data = st.data, !.fields = st.fields,
                                      !.last_index = st.last_index]]
          /\ cl_call' = [result |-> "returned", n |-> cl_call.n + 1, tag |-> tag,
                         name |-> name, before |-> meta_dict.last_index,
                         read |-> read, meta |-> meta,
                         commands |-> GetDataCommands(meta_dict.logfile,
                                                      logfiles[meta_dict.logfile])]
          /\ cl_polls' = [cl_polls EXCEPT ![name] =
                             Append(@, <<Len(read) - Len(meta), Len(read)>>)]
    /\ UNCHANGED logfiles
    /\ UNCHANGED notCl

\* GenericWrapper.collect_logs(tag, device, iperf_data[name])
CollectLogs(tag, name) ==
    /\ cl_call.result # "idle"
    /\ cl_call.n < MaxCollect
    /\ IF tag \notin {"client", "server"}
          THEN /\ cl_call' = [result |-> "raised", n |-> cl_call.n + 1, tag |-> tag,
                              name |-> name, before |-> NoLine, read |-> <<>>,
                              meta |-> <<>>, commands |-> <<>>]
               /\ UNCHANGED <<iperf_server_data, iperf_client_data, iperf_data, cl_polls>>
          ELSE LET meta_dict == iperf_data[name]
                   read == GetData(logfiles[meta_dict.logfile])
                   meta == AfterLastIndex(read, meta_dict.last_index)
                   st == ParseLines(ParseStart(meta_dict.fields), meta)
               IN /\ iperf_client_data' =
                        IF tag = "client" THEN <<name>> ELSE iperf_client_data
                  /\ iperf_server_data' =
                        IF tag = "server" THEN <<name>> ELSE iperf_server_data
                  /\ iperf_data' =
                        [iperf_data EXCEPT ![name] =
                            [meta_dict EXCEPT !.data = st.data, !.fields = st.fields,
                                              !.last_index = st.last_index]]
                  /\ cl_call' = [result |-> "returned", n |-> cl_call.n + 1, tag |-> tag,
                                 name |-> name, before |-> meta_dict.last_index,
                                 read |-> read, meta |-> meta,
                                 commands |-> GetDataCommands(meta_dict.logfile,
                                                              logfiles[meta_dict.logfile])]
                  \* the slice is a suffix of the lines read: what was skipped
                  \* and how many lines the log had
                  /\ cl_polls' = [cl_polls EXCEPT ![name] =
                                     Append(@, <<Len(read) - Len(meta), Len(read)>>)]
    /\ UNCHANGED logfiles
    /\ UNCHANGED notCl

ClCollect == \E tag \in Tags, name \in DescriptorNames : CollectLogs(tag, name)

\* ---- logs that grow between the calls
\* iperf runs with --logfile and writes on while the tests poll the file;
\* get_details_dict has found "Connecting to host" or "Server listening on"
\* at the head of the file before the first collect_logs

MaxAppend == 2

\* the lines iperf appends: two intervals with units of the table and a
\* total in TBytes
AppendedLines ==
    {SumLine(0, 100, 100, "MBytes", 839),
     SumLine(100, 200, 1234, "Kbits", 1),
     SumLine(0, 1000, 1, "TBytes", 945)}

\* the logs when the descriptors are made
StartedLogs == {<<HeaderLine>>, <<HeaderLine, BlankLine, IdLine, StreamLine>>}

\* the number of lines written since
Appended(content) == Cardinality({j \in DOMAIN content : content[j] \in AppendedLines})

ClGrowInit ==
    /\ iperf_server_data = <<>>
    /\ iperf_client_data = <<>>
    /\ iperf_data = [name \in DescriptorNames |-> NewDescriptor(LogfileOf(name))]
    /\ logfiles \in [{"server.log", "client.log"} -> StartedLogs]
    /\ cl_call = ClNoCall
    /\ cl_polls = NoPolls

\* iperf writes one more line to one of the logs
ClAppend ==
    /\ cl_call.result # "idle"
    /\ Appended(logfiles["server.log"]) + Appended(logfiles["client.log"]) < MaxAppend
    /\ \E f \in {"server.log", "client.log"}, l \in AppendedLines :
          logfiles' = [logfiles EXCEPT ![f] = Append(@, l)]
    /\ UNCHANGED <<iperf_server_data, iperf_client_data, iperf_data, cl_call, cl_polls>>
    /\ UNCHANGED notCl

\* ---- claims about collect_logs

\* the [SUM] lines with a unit of the table among the lines the last call parsed
SumsRecognized ==
    SelectSeq(cl_call.meta,
              LAMBDA l : l.kind = "sum" /\ Lower(l.unit) \in
                  {"bits", "bytes", "kbits", "kbytes", "mbits", "mbytes", "gbits", "gbytes"})

LastData == iperf_data[cl_call.name].data

TableOverMbits ==
    [bits   |-> <<1, 1048576>>,
     bytes  |-> <<1, 131072>>,
     kbits  |-> <<1, 1024>>,
     kbytes |-> <<1, 128>>,
     mbits  |-> <<1, 1>>,
     mbytes |-> <<8, 1>>,
     gbits  |-> <<1024, 1>>,
     gbytes |-> <<8192, 1>>]

Abs(x) == IF x < 0 THEN -x ELSE x

\* C9: the throughput recorded for a [SUM] line of value v and unit u is
\* v * table[u] / table[mbits] rounded to 3 decimals: a number of
\* thousandths at most half a thousandth away from it. A [SUM] line whose
\* unit is not in the table records no sample.
C9_Normalization ==
    cl_call.result = "returned" =>
        /\ Len(LastData) = Len(SumsRecognized)
        /\ \A j \in DOMAIN LastData :
              LET l == SumsRecognized[j]
                  ratio == TableOverMbits[Lower(l.unit)]
                  recorded == LastData[j].value[2]
              IN Abs(recorded * ratio[2] - l.value * 10 * ratio[1]) <= ratio[2] \div 2

\* 8 with unit mbytes (written MBytes) records 64.0
C9_Witness ==
    /\ cl_call.result = "returned"
    /\ Len(LastData) = 1
    /\ SumsRecognized[1].value = 800 /\ SumsRecognized[1].unit = "MBytes"
    /\ LastData[1].value[2] = 64000

\* a [SUM] line with unit TBytes parsed and no sample recorded
C9_WitnessUnknownUnit ==
    /\ cl_call.result = "returned"
    /\ \E j \in DOMAIN cl_call.meta :
          cl_call.meta[j].kind = "sum" /\ cl_call.meta[j].unit = "TBytes"
    /\ LastData = <<>>


\* C17: collect_logs with a tag other than "server" or "client" fails with
\* an invalid-input error before any command is sent to the device and
\* leaves the held client list and the held server list unchanged; with a
\* valid tag only the field of that tag is replaced, by the one-element list
\* holding iperf_data, and the other is unchanged.
C17_TagValidation ==
    [][cl_call'.n = cl_call.n + 1 =>
         IF cl_call'.tag \notin {"server", "client"}
            THEN /\ cl_call'.result = "raised"
                 /\ cl_call'.commands = <<>>
                 /\ iperf_client_data' = iperf_client_data
                 /\ iperf_server_data' = iperf_server_data
            ELSE /\ cl_call'.result = "returned"
                 /\ cl_call'.tag = "client" =>
                       /\ iperf_client_data' = <<cl_call'.name>>
                       /\ iperf_server_data' = iperf_server_data
                 /\ cl_call'.tag = "server" =>
                       /\ iperf_server_data' = <<cl_call'.name>>
                       /\ iperf_client_data' = iperf_client_data]_vars

\* a call with tag "other" after a call that stored a server descriptor
C17_Witness ==
    /\ cl_call.n = 2
    /\ cl_call.result = "raised"
    /\ cl_call.tag = "other"
    /\ cl_call.commands = <<>>
    /\ iperf_server_data = <<"server_data">>
    /\ iperf_client_data = <<>>

\* ---- claims about the incremental read

\* the non-blank lines of a log but the first of them, by position
LinesAfterHeader(content) ==
    LET keep == {j \in DOMAIN content : content[j].kind # "blank"}
        nth(k) == CHOOSE j \in keep : Cardinality({i \in keep : i < j}) = k - 1
    IN [k \in 1..(Cardinality(keep) - 1) |-> content[nth(k + 1)]]

\* a [SUM] line whose unit, lowered, is one of the 8 of the table
Recognized(l) ==
    /\ l.kind = "sum"
    /\ Lower(l.unit) \in
          {"bits", "bytes", "kbits", "kbytes", "mbits", "mbytes", "gbits", "gbytes"}

\* C21: a collect_logs call that returns has parsed, when the descriptor's
\* stored last-index line occurs among the lines read, exactly the lines
\* after it (after the first place where it occurs), so that the lines up
\* to and including it give no sample, and otherwise all the lines after
\* the dropped header; the samples are those of the parsed lines, one for
\* each [SUM] line of a recognized unit, in order; and when a [SUM] line
\* was parsed the last-index marker on return is the last of them, of a
\* recognized unit or not.
C21_IncrementalRead ==
    [][(cl_call'.n = cl_call.n + 1 /\ cl_call'.result = "returned") =>
          LET name == cl_call'.name
              marker == iperf_data[name].last_index
              lines == LinesAfterHeader(logfiles[iperf_data[name].logfile])
              parsed == cl_call'.meta
              sums == SelectSeq(parsed, LAMBDA l : l.kind = "sum")
              recognized == SelectSeq(parsed, Recognized)
              data == iperf_data'[name].data
          IN /\ IF \E j \in DOMAIN lines : lines[j] = marker
                   THEN \E j \in DOMAIN lines :
                           /\ lines[j] = marker
                           /\ \A k \in 1..(j - 1) : lines[k] # marker
                           /\ parsed = SubSeq(lines, j + 1, Len(lines))
                   ELSE parsed = lines
             /\ Len(data) = Len(recognized)
             /\ \A k \in DOMAIN data :
                   /\ data[k].value[1] = recognized[k].end
                   /\ data[k].value[3] = recognized[k].rate
             /\ sums # <<>> => iperf_data'[name].last_index = sums[Len(sums)]]_vars

\* a call that found its marker among the lines read and parsed only what
\* follows, the last of it a [SUM] line in TBytes, which is the new marker
C21_Witness ==
    /\ cl_call.result = "returned"
    /\ cl_call.before # NoLine
    /\ InSeq(cl_call.before, cl_call.read)
    /\ cl_call.meta # <<>>
    /\ Len(cl_call.meta) < Len(cl_call.read)
    /\ cl_call.meta[Len(cl_call.meta)].kind = "sum"
    /\ cl_call.meta[Len(cl_call.meta)].unit = "TBytes"
    /\ iperf_data[cl_call.name].last_index = cl_call.meta[Len(cl_call.meta)]

\* a later call on a descriptor whose marker is None: all lines are parsed
C21_WitnessNoMarker ==
    /\ cl_call.result = "returned"
    /\ Len(cl_polls[cl_call.name]) >= 2
    /\ cl_call.before = NoLine
    /\ cl_call.read # <<>>
    /\ cl_call.meta = cl_call.read

\* the marker occurs twice among the lines read: the second is parsed
C21_WitnessMarkerTwice ==
    /\ cl_call.result = "returned"
    /\ Len(cl_call.read) = 2
    /\ cl_call.read[1] = cl_call.before
    /\ cl_call.read[2] = cl_call.before
    /\ cl_call.meta = <<cl_call.before>>

\* the calls on descriptor `name` that have parsed line p of its log (the
\* p-th of the lines after the header): a call that skipped `skipped` lines
\* of the `len` it read has parsed the lines skipped + 1 .. len
PollsOfLine(name, p) ==
    {q \in DOMAIN cl_polls[name] : cl_polls[name][q][1] < p /\ p <= cl_polls[name][q][2]}

\* the lines of the log of `name` that give a sample when parsed
SampleLines(name) ==
    LET lines == LinesAfterHeader(logfiles[iperf_data[name].logfile])
    IN {p \in DOMAIN lines : Recognized(lines[p])}

\* C25: over the calls made on one descriptor while its log only grows,
\* every [SUM] line of a recognized unit is in the samples of exactly one
\* call: of one call once a call has read it, and never of a second.
C25_ReportedOnce ==
    \A name \in DescriptorNames :
        \A p \in SampleLines(name) :
            /\ Cardinality(PollsOfLine(name, p)) <= 1
            /\ (cl_polls[name] # <<>> /\ p <= cl_polls[name][Len(cl_polls[name])][2])
                  => Cardinality(PollsOfLine(name, p)) = 1

\* a line reported by the first call and again by the third, after a second
\* call that found nothing new and left the marker None; the log holds no
\* two equal lines
C25_RepeatedAfterEmptyPoll ==
    \E name \in DescriptorNames :
        /\ Len(cl_polls[name]) = 3
        /\ cl_polls[name][2][1] = cl_polls[name][2][2]
        /\ \E p \in SampleLines(name) : PollsOfLine(name, p) = {1, 3}
        /\ LET lines == LinesAfterHeader(logfiles[iperf_data[name].logfile])
           IN \A i, j \in DOMAIN lines : lines[i] = lines[j] => i = j

\* the second of two equal [SUM] lines reported by two calls in a row, the
\* later call having resumed after the first of the two
C25_RepeatedTwin ==
    \E name \in DescriptorNames :
        LET lines == LinesAfterHeader(logfiles[iperf_data[name].logfile])
        IN \E p \in SampleLines(name) :
              /\ p > 1
              /\ lines[p - 1] = lines[p]
              /\ PollsOfLine(name, p) = {1, 2}
              /\ PollsOfLine(name, p - 1) = {1}

-----------------------------------------------------------------------------
(* networking.IptablesFirewall.add_drop_rule_iptables / _ip6tables         *)

MaxFwCalls == 2

\* f"{prog} -C INPUT {option} {valid_ip} -j DROP"
CheckCommand(prog, option, valid_ip) ==
    <<prog, "-C", "INPUT", option, valid_ip, "-j", "DROP">>

\* f"{prog} -I INPUT 1 {option} {valid_ip} -j DROP"
InsertCommand(prog, option, valid_ip) ==
    <<prog, "-I", "INPUT", "1", option, valid_ip, "-j", "DROP">>

ProgramOf(method) == IF method = "add_drop_rule_iptables" THEN "iptables" ELSE "ip6tables"

\* what the console answers to the check, as far as the method reads it:
\* not_found: "host/network `<valid_ip>' not found" is in it
\* bad_rule:  "Bad rule" is in it
CheckOutputs == [not_found : BOOLEAN, bad_rule : BOOLEAN]

FwNoCall ==
    [result |-> "none", n |-> 0, method |-> "", option |-> "", valid_ip |-> "",
     output |-> [not_found |-> FALSE, bad_rule |-> FALSE], issued |-> <<>>, before |-> <<>>]

FwInit ==
    /\ console_log = <<>>
    /\ fw_call = FwNoCall

FwIdle ==
    /\ console_log = <<>>
    /\ fw_call = [FwNoCall EXCEPT !.result = "idle"]

\* re.search(rf"host\/network.*{valid_ip}.*not found", output)
HostNotFound(output) == output.not_found

\* the commands after the check command, with "Bad rule" tested before the
\* host/network test
FollowUpBadRuleFirst(prog, option, valid_ip, output) ==
    IF output.bad_rule
       THEN [result |-> "returned", issued |-> <<InsertCommand(prog, option, valid_ip)>>]
       ELSE IF HostNotFound(output)
            THEN [result |-> "raised", issued |-> <<>>]
            ELSE [result |-> "returned", issued |-> <<>>]

\* the body after the check command: raise ValueError, insert, or nothing
FollowUp(prog, option, valid_ip, output) ==
    IF HostNotFound(output)
       THEN [result |-> "raised", issued |-> <<>>]
       ELSE IF output.bad_rule
            THEN [result |-> "returned", issued |-> <<InsertCommand(prog, option, valid_ip)>>]
            ELSE [result |-> "returned", issued |-> <<>>]

AddDropRule(method, option, valid_ip) ==
    /\ fw_call.result # "idle"
    /\ fw_call.n < MaxFwCalls
    /\ \E output \in CheckOutputs :
          LET prog == ProgramOf(method)
              rest == FollowUp(prog, option, valid_ip, output)
              issued == <<CheckCommand(prog, option, valid_ip)>> \o rest.issued
          IN /\ console_log' = console_log \o issued
             /\ fw_call' = [result |-> rest.result, n |-> fw_call.n + 1, method |-> method,
                            option |-> option, valid_ip |-> valid_ip, output |-> output,
                            issued |-> issued, before |-> console_log]
    /\ UNCHANGED notFw

FwAddDropRule ==
    \E method \in {"add_drop_rule_iptables", "add_drop_rule_ip6tables"},
       option \in {"-s", "-d"}, valid_ip \in {"10.0.0.5", "2001:db8::5"} :
        AddDropRule(method, option, valid_ip)

\* ---- claims about add_drop_rule_iptables / add_drop_rule_ip6tables

\* the commands the console got during the last call
FwIssued == SubSeq(console_log, Len(fw_call.before) + 1, Len(console_log))

IsCheckOf(cmd, call) ==
    /\ Len(cmd) = 7
    /\ cmd[1] = (IF call.method = "add_drop_rule_iptables" THEN "iptables" ELSE "ip6tables")
    /\ cmd[2] = "-C" /\ cmd[3] = "INPUT"
    /\ cmd[4] = call.option /\ cmd[5] = call.valid_ip
    /\ cmd[6] = "-j" /\ cmd[7] = "DROP"

IsInsertOf(cmd, call) ==
    /\ Len(cmd) = 8
    /\ cmd[1] = (IF call.method = "add_drop_rule_iptables" THEN "iptables" ELSE "ip6tables")
    /\ cmd[2] = "-I" /\ cmd[3] = "INPUT" /\ cmd[4] = "1"
    /\ cmd[5] = call.option /\ cmd[6] = call.valid_ip
    /\ cmd[7] = "-j" /\ cmd[8] = "DROP"

\* C10: a call issues the check command first and once; if the check output
\* reports the host/network not found the call fails and nothing else is
\* issued; else if the output contains "Bad rule" exactly one more command
\* is issued, the insert at position 1 of INPUT; otherwise nothing else.
C10_CheckThenInsert ==
    fw_call.result \in {"returned", "raised"} =>
        /\ SubSeq(console_log, 1, Len(fw_call.before)) = fw_call.before
        /\ Len(FwIssued) >= 1
        /\ IsCheckOf(FwIssued[1], fw_call)
        /\ \A j \in 2..Len(FwIssued) : ~IsCheckOf(FwIssued[j], fw_call)
        /\ IF fw_call.output.not_found
              THEN fw_call.result = "raised" /\ Len(FwIssued) = 1
              ELSE /\ fw_call.result = "returned"
                   /\ IF fw_call.output.bad_rule
                         THEN Len(FwIssued) = 2 /\ IsInsertOf(FwIssued[2], fw_call)
                         ELSE Len(FwIssued) = 1

\* "Bad rule" answered to add_drop_rule_ip6tables: check, then one insert
C10_Witness ==
    /\ fw_call.result = "returned"
    /\ fw_call.method = "add_drop_rule_ip6tables"
    /\ fw_call.output = [not_found |-> FALSE, bad_rule |-> TRUE]
    /\ FwIssued = <<<<"ip6tables", "-C", "INPUT", "-s", "2001:db8::5", "-j", "DROP">>,
                    <<"ip6tables", "-I", "INPUT", "1", "-s", "2001:db8::5", "-j", "DROP">>>>

-----------------------------------------------------------------------------
(* plugins.core: the interactive shell after deployment                    *)

MaxInputLen == 2

\* the names devices and consoles can have, in the order sorted() gives
NameOrder == <<"a_dev", "b_dev", "console1", "console2", "q">>

\* what the operator can type: texts of up to MaxInputLen characters;
\* "sup2" stands for the one character U+00B2 (superscript two)
Inputs ==
    UNION {[1..n -> {"q", "x", "0", "1", "2", "3", "sup2"}] : n \in 0..MaxInputLen}

exit_code == "q"

\* sorted(list(d.keys())) in reverse
SortedReversed(keys) ==
    LET up == SelectSeq(NameOrder, LAMBDA n : n \in keys)
    IN [i \in 1..Len(up) |-> up[Len(up) + 1 - i]]

\* sorted(list(d.keys()))
Sorted(keys) == SelectSeq(NameOrder, LAMBDA n : n \in keys)

\* str.isdigit(): not empty and every character a digit (U+00B2 is one)
IsDigit(text) ==
    /\ Len(text) > 0
    /\ \A i \in DOMAIN text : text[i] \in {"0", "1", "2", "3", "sup2"}

ValueError == -1

\* int(text) of a text str.isdigit() accepts: the decimal value, or
\* ValueError when a character is no decimal digit
RECURSIVE IntOf(_)
IntOf(text) ==
    IF \E i \in DOMAIN text : text[i] = "sup2" THEN ValueError
    ELSE IF text = <<>> THEN 0
    ELSE LET last == text[Len(text)]
             d == CASE last = "0" -> 0 [] last = "1" -> 1 [] last = "2" -> 2 [] OTHER -> 3
         IN 10 * IntOf(SubSeq(text, 1, Len(text) - 1)) + d

\* names[i] for i >= -1: Python counts a negative index from the end
PyIndex(names, i) == IF i >= 0 THEN names[i + 1] ELSE names[Len(names) + i + 1]

Ev(e, a, b) == [ev |-> e, rows |-> <<>>, a |-> a, b |-> b]

NoInput == [prompt |-> "", text |-> <<>>]

ShInit ==
    /\ devices_dict \in UNION {[D -> {{}, {"console1"}, {"console2", "console1"}}] :
                                 D \in SUBSET {"a_dev", "b_dev", "q"}}
    /\ sh_pc = "start"
    /\ sh_out = <<>>
    /\ sh_input = NoInput
    /\ sh_device = ""

ShIdle ==
    /\ devices_dict = <<>>
    /\ sh_pc = "idle"
    /\ sh_out = <<>>
    /\ sh_input = NoInput
    /\ sh_device = ""

\* the table _get_device_name_from_user prints (the device type is left out)
DeviceTable(d) ==
    LET device_names == Sorted(DOMAIN d)
    IN [ev |-> "table", a |-> "", b |-> "",
        rows |-> [i \in 1..Len(device_names) |->
                    [id |-> i, name |-> device_names[i],
                     consoles |-> Cardinality(d[device_names[i]])]]]

\* the loop is left: by break and line 139, or by an exception
ShEnds(crashed) ==
    [pc |-> IF crashed THEN "crashed" ELSE "done", device |-> "",
     out |-> IF crashed THEN <<>> ELSE <<Ev("print", "Bye.", "")>>]

\* the top of `while True` up to input(): where the shell is next, what it printed
LoopTop(d) ==
    IF DOMAIN d = {}
       THEN [pc |-> "done", device |-> "",
             out |-> <<Ev("print", "No device available in the environment.", "")>>
                     \o ShEnds(FALSE).out]
       ELSE [pc |-> "device_prompt", device |-> "",
             out |-> <<DeviceTable(d), Ev("input", "Please enter a device ID: ", "")>>]

\* _get_device_name_from_user after input(): device_name, or None, or ValueError
GetDeviceName(device_names, device_id) ==
    IF device_id = <<exit_code>>
       THEN [r |-> "name", name |-> exit_code, out |-> <<>>]
    ELSE IF ~IsDigit(device_id)
       THEN [r |-> "None", name |-> "",
             out |-> <<Ev("print", "ERROR: Wrong input. Please try again.", "")>>]
    ELSE IF IntOf(device_id) = ValueError
       THEN [r |-> "ValueError", name |-> "", out |-> <<>>]
    ELSE IF IntOf(device_id) > Len(device_names)
       THEN [r |-> "None", name |-> "",
             out |-> <<Ev("print", "ERROR: Wrong device ID. Please try again.", "")>>]
    ELSE [r |-> "name", name |-> PyIndex(device_names, IntOf(device_id) - 1), out |-> <<>>]

\* lines 135-137: the session on the selected console
EnterSession(d, device_name, console_name) ==
    [pc |-> "session", device |-> "",
     out |-> <<Ev("print", "Entering into", console_name),
               Ev("start_interactive_session", device_name, console_name)>>]

\* _get_console_name_from_user from the top of its loop up to input() or
\* return, and lines 133-137 when it returns
ConsoleLoop(d, device_name) ==
    LET console_names == Sorted(d[device_name])
    IN IF console_names = <<>>
          THEN LET top == LoopTop(d)
               IN [top EXCEPT !.out = <<Ev("print", "ERROR: No console available for", device_name)>>
                                      \o top.out]
       ELSE IF Len(console_names) = 1
          THEN EnterSession(d, device_name, console_names[1])
       ELSE [pc |-> "console_prompt", device |-> device_name,
             out |-> <<Ev("print", "has more than one console.", device_name),
                       [ev |-> "consoles", a |-> "", b |-> "", rows |-> console_names],
                       Ev("input", "Please enter a console ID: ", "")>>]

\* the shell with added text in front of what it printed
Printed(front, next) == [next EXCEPT !.out = front \o next.out]

ShGoes(next, text, prompt) ==
    /\ sh_pc' = next.pc
    /\ sh_out' = next.out
    /\ sh_input' = [prompt |-> prompt, text |-> text]
    /\ sh_device' = next.device
    /\ UNCHANGED <<devices_dict, notSh>>

\* lines 117-125: the banner and the first pass of the loop up to input()
ShStart ==
    /\ sh_pc = "start"
    /\ ShGoes(LoopTop(devices_dict), <<>>, "")

\* the operator answers the device prompt: lines 66-75 and 126-137, and
\* the next pass of the loop up to input()
ShDeviceInput ==
    /\ sh_pc = "device_prompt"
    /\ \E device_id \in Inputs :
          LET got == GetDeviceName(Sorted(DOMAIN devices_dict), device_id)
          IN CASE got.r = "ValueError" -> ShGoes(ShEnds(TRUE), device_id, "device")
               [] got.r = "None" ->
                     ShGoes(Printed(got.out, LoopTop(devices_dict)), device_id, "device")
               [] got.r = "name" /\ got.name = exit_code ->
                     ShGoes(ShEnds(FALSE), device_id, "device")
               [] OTHER -> ShGoes(ConsoleLoop(devices_dict, got.name), device_id, "device")

\* the operator answers the console prompt: lines 99-107 and 133-137
ShConsoleInput ==
    /\ sh_pc = "console_prompt"
    /\ \E console_id \in Inputs :
          LET console_names == Sorted(devices_dict[sh_device])
              again == ConsoleLoop(devices_dict, sh_device)
          IN IF ~IsDigit(console_id)
                THEN ShGoes(Printed(<<Ev("print", "ERROR: Wrong input. Please try again.", "")>>,
                                    again), console_id, "console")
             ELSE IF IntOf(console_id) = ValueError
                THEN ShGoes(ShEnds(TRUE), console_id, "console")
             ELSE IF IntOf(console_id) > Len(console_names)
                THEN ShGoes(Printed(<<Ev("print", "ERROR: Wrong console ID. Please try again.", "")>>,
                                    again), console_id, "console")
             ELSE ShGoes(EnterSession(devices_dict, sh_device,
                                      PyIndex(console_names, IntOf(console_id) - 1)),
                         console_id, "console")

\* start_interactive_session returns: line 138 and the next pass of the loop
ShSessionEnd ==
    /\ sh_pc = "session"
    /\ ShGoes(Printed(<<Ev("print", "", "")>>, LoopTop(devices_dict)), <<>>, "")

\* ---- claims about the interactive shell

ShSessions == SelectSeq(sh_out, LAMBDA e : e.ev = "start_interactive_session")
ShPrompts == SelectSeq(sh_out, LAMBDA e : e.ev = "input")
ShTables == SelectSeq(sh_out, LAMBDA e : e.ev = "table")

\* the place of a name in alphabetical order
RankOf(name) == CHOOSE i \in DOMAIN NameOrder : NameOrder[i] = name

\* a text no character of which is numeric, or the empty text
NonNumeric(text) == ~(Len(text) > 0 /\ \A i \in DOMAIN text : text[i] \in {"0", "1", "2", "3", "sup2"})

\* a text of decimal digits
IsDecimal(text) == Len(text) > 0 /\ \A i \in DOMAIN text : text[i] \in {"0", "1", "2", "3"}

\* the shell shows the device prompt again, having selected nothing
BackAtDevicePrompt ==
    /\ sh_pc = "device_prompt"
    /\ sh_device = ""
    /\ ShSessions = <<>>
    /\ Len(ShPrompts) = 1
    /\ sh_out[Len(sh_out)] = Ev("input", "Please enter a device ID: ", "")

\* C11: the device table is numbered from 1 in alphabetical order of device
\* name; "q" at the device prompt ends the loop with no further prompt and
\* no session, and the farewell is printed; a non-numeric input other than
\* "q" selects nothing and the device prompt is shown again.
C11_DevicePrompt ==
    /\ \A t \in DOMAIN ShTables :
          LET rows == ShTables[t].rows
          IN /\ {rows[i].name : i \in DOMAIN rows} = DOMAIN devices_dict
             /\ Len(rows) = Cardinality(DOMAIN devices_dict)
             /\ \A i \in DOMAIN rows : rows[i].id = i
             /\ \A i, j \in DOMAIN rows :
                   i < j => RankOf(rows[i].name) < RankOf(rows[j].name)
    /\ (sh_input.prompt = "device" /\ sh_input.text = <<"q">>) =>
          /\ sh_pc = "done"
          /\ sh_out = <<Ev("print", "Bye.", "")>>
    /\ (sh_input.prompt = "device" /\ sh_input.text # <<"q">> /\ NonNumeric(sh_input.text)) =>
          BackAtDevicePrompt

\* devices {b_dev, a_dev}: a_dev is 1 and b_dev is 2 in the table shown
\* after a wrong input
C11_Witness ==
    /\ DOMAIN devices_dict = {"b_dev", "a_dev"}
    /\ sh_input = [prompt |-> "device", text |-> <<"x">>]
    /\ sh_pc = "device_prompt"
    /\ Len(ShTables) = 1
    /\ ShTables[1].rows[1].name = "a_dev" /\ ShTables[1].rows[1].id = 1
    /\ ShTables[1].rows[2].name = "b_dev" /\ ShTables[1].rows[2].id = 2

\* "q" at the device prompt: the shell is done, having printed the farewell
C11_WitnessExit ==
    /\ sh_input = [prompt |-> "device", text |-> <<"q">>]
    /\ sh_pc = "done"
    /\ DOMAIN devices_dict = {"b_dev", "a_dev"}

\* C12: for N listed devices a decimal input that is not in 1..N (0
\* included) prints an error, selects no device, starts no session, and the
\* device prompt is shown again.
C12_OutOfRangeReprompts ==
    (/\ sh_input.prompt = "device"
     /\ IsDecimal(sh_input.text)
     /\ IntOf(sh_input.text) \notin 1..Cardinality(DOMAIN devices_dict)) =>
        /\ BackAtDevicePrompt
        /\ \E i \in DOMAIN sh_out : sh_out[i].ev = "print" /\ sh_out[i].a # ""

\* an input above N does what C12 says
C12_AboveRangeReprompts ==
    (/\ sh_input.prompt = "device"
     /\ IsDecimal(sh_input.text)
     /\ IntOf(sh_input.text) > Cardinality(DOMAIN devices_dict)) =>
        /\ BackAtDevicePrompt
        /\ sh_out[1] = Ev("print", "ERROR: Wrong device ID. Please try again.", "")

\* "0" at the device prompt of {a_dev, b_dev}: a session starts on b_dev
C12_ZeroSelectsLast ==
    /\ DOMAIN devices_dict = {"a_dev", "b_dev"}
    /\ sh_input = [prompt |-> "device", text |-> <<"0">>]
    /\ sh_pc = "session"
    /\ ShSessions = <<Ev("start_interactive_session", "b_dev", "console1")>>

\* C13: "q" at the console prompt of a device with more than one console
\* selects no console, starts no session, and the next prompt shown is the
\* device prompt.
C13_ConsoleExitReturns ==
    (sh_input.prompt = "console" /\ sh_input.text = <<"q">>) => BackAtDevicePrompt

\* "q" at the console prompt: the console prompt is shown again
C13_ConsolePromptAgain ==
    /\ sh_input = [prompt |-> "console", text |-> <<"q">>]
    /\ sh_pc = "console_prompt"
    /\ sh_out[1] = Ev("print", "ERROR: Wrong input. Please try again.", "")
    /\ sh_out[Len(sh_out)] = Ev("input", "Please enter a console ID: ", "")

\* ---- claims about the sessions of the shell

\* a decimal text that picks a row of the table: 1..N, and 0, which picks
\* the last row
PicksDevice(text) == IsDecimal(text) /\ IntOf(text) <= Cardinality(DOMAIN devices_dict)

\* the device of the row the text picks
DeviceOfId(text) ==
    LET rows == DeviceTable(devices_dict).rows
    IN IF IntOf(text) = 0 THEN rows[Len(rows)].name ELSE rows[IntOf(text)].name

SessionEvents(out) == SelectSeq(out, LAMBDA e : e.ev = "start_interactive_session")

\* what is seen after the device `d` was picked at the device prompt
AfterDevicePicked(d) ==
    /\ devices_dict[d] = {} =>
          /\ BackAtDevicePrompt
          /\ sh_out[1] = Ev("print", "ERROR: No console available for", d)
    /\ Cardinality(devices_dict[d]) = 1 =>
          /\ sh_pc = "session"
          /\ ShPrompts = <<>>
          /\ \E console_name \in devices_dict[d] :
                ShSessions = <<Ev("start_interactive_session", d, console_name)>>

\* a step of the shell that starts a session starts one, on a console of the
\* device picked in this pass of the loop; the step after a session shows
\* the device prompt
SessionSteps ==
    /\ SessionEvents(sh_out') # <<>> =>
          LET e == sh_out'[Len(sh_out')]
          IN /\ sh_pc' = "session"
             /\ SessionEvents(sh_out') = <<e>>
             /\ e.a \in DOMAIN devices_dict
             /\ e.b \in devices_dict[e.a]
             /\ sh_pc = "device_prompt" => e.a = DeviceOfId(sh_input'.text)
             /\ sh_pc = "console_prompt" => e.a = sh_device
             /\ sh_pc \in {"device_prompt", "console_prompt"}
    /\ sh_pc' = "session" => SessionEvents(sh_out') # <<>>
    /\ sh_pc = "session" =>
          /\ sh_pc' = "device_prompt"
          /\ SessionEvents(sh_out') = <<>>
          /\ sh_out'[Len(sh_out')] = Ev("input", "Please enter a device ID: ", "")

\* C24: a session is started only on a console of the device selected in
\* the same pass of the loop, at most one in a pass; a selected device with
\* no console gives an error and the device prompt again with no session; a
\* selected device with exactly one console gets that console with no
\* console prompt; after the session ends the shell is back at the device
\* prompt and has not exited.
C24_Sessions ==
    [][/\ SessionSteps
       /\ \A text \in Inputs :
             (sh_pc = "device_prompt" /\ sh_input'.text = text /\ PicksDevice(text))
                => AfterDevicePicked(DeviceOfId(text))']_vars

\* the same for every device but one whose name is the exit code; picking
\* that one ends the shell
C24_SessionsUnlessNamedExit ==
    [][/\ SessionSteps
       /\ \A text \in Inputs :
             (sh_pc = "device_prompt" /\ sh_input'.text = text /\ PicksDevice(text))
                => IF DeviceOfId(text) = exit_code
                      THEN sh_pc' = "done" /\ sh_out' = <<Ev("print", "Bye.", "")>>
                      ELSE AfterDevicePicked(DeviceOfId(text))']_vars

\* the device named q, with one console, is picked by its ID: the shell
\* says Bye and is done, no session was started
C24_NamedExitEndsShell ==
    /\ "q" \in DOMAIN devices_dict
    /\ devices_dict["q"] = {"console1"}
    /\ sh_input.prompt = "device"
    /\ PicksDevice(sh_input.text)
    /\ sh_input.text # <<"q">>
    /\ DeviceOfId(sh_input.text) = "q"
    /\ sh_pc = "done"
    /\ ShSessions = <<>>

\* a device with one console picked: the session runs on it
C24_WitnessOneConsole ==
    /\ sh_input = [prompt |-> "device", text |-> <<"1">>]
    /\ "a_dev" \in DOMAIN devices_dict
    /\ devices_dict["a_dev"] = {"console1"}
    /\ sh_pc = "session"
    /\ ShSessions = <<Ev("start_interactive_session", "a_dev", "console1")>>

\* a device with no console picked: the error, then the device prompt
C24_WitnessNoConsole ==
    /\ sh_input = [prompt |-> "device", text |-> <<"2">>]
    /\ DOMAIN devices_dict = {"a_dev", "b_dev"}
    /\ devices_dict["b_dev"] = {}
    /\ sh_pc = "device_prompt"
    /\ sh_out[1] = Ev("print", "ERROR: No console available for", "b_dev")

-----------------------------------------------------------------------------
(* Console exchanges: scp, start_tcpdump, stop_tcpdump (networking.py),    *)
(* connect_to_board_via_reverse_ssh (linux_wan.py)                         *)

DefaultTimeout == -1
PasswordWindow == 10
ScpTimeout == 30

TIMEOUT == "pexpect.TIMEOUT"
Raised == -1

\* one console operation <<op, arg, timeout, got, output>>: op is sendline,
\* execute_command, expect or expect_exact; got is the index an expect
\* returned (Raised when it raised TIMEOUT), output the text an
\* execute_command returned
Op(op, arg, timeout, got, output) == <<op, arg, timeout, got, output>>

Sendline(string) == Op("sendline", string, DefaultTimeout, 0, <<>>)

\* pexpect: the index of the pattern the console shows; when it shows none of
\* them within the timeout, the index of TIMEOUT if listed, else TIMEOUT is raised
Expect(patterns, seen) ==
    IF \E i \in DOMAIN patterns : patterns[i] = seen /\ seen # TIMEOUT
       THEN (CHOOSE i \in DOMAIN patterns : patterns[i] = seen) - 1
    ELSE IF \E i \in DOMAIN patterns : patterns[i] = TIMEOUT
       THEN (CHOOSE i \in DOMAIN patterns : patterns[i] = TIMEOUT) - 1
    ELSE Raised

CxNoCall == [fn |-> "", args |-> <<>>, result |-> "none", error |-> "", value |-> <<>>]

CxInit ==
    /\ cx_trace = <<>>
    /\ cx_call = CxNoCall

CxIdle ==
    /\ cx_trace = <<>>
    /\ cx_call = [CxNoCall EXCEPT !.result = "idle"]

\* a call ran: what it did on the console and how it ended
CxDone(fn, args, run) ==
    /\ cx_call.result # "idle"
    /\ cx_trace' = run.trace
    /\ cx_call' = [fn |-> fn, args |-> args, result |-> run.result,
                   error |-> run.error, value |-> run.value]
    /\ UNCHANGED notCx

CxReturn(trace, value) == [trace |-> trace, result |-> "returned", error |-> "", value |-> value]
CxRaise(trace, error, msg) == [trace |-> trace, result |-> "raised", error |-> error, value |-> msg]

\* ---- networking.scp

\* lines 176-185, for host "host", port "22", username "user"
ScpCommand(action, src_path, dst_path) ==
    IF action = "download"
       THEN <<"scp -o StrictHostKeyChecking=no -o UserKnownHostsFile=/dev/null",
              "-q", "-P", "22", <<"user", "@", "host", ":", src_path>>, dst_path>>
       ELSE <<"scp -o StrictHostKeyChecking=no -o UserKnownHostsFile=/dev/null",
              "-q", "-P", "22", src_path, <<"user", "@", "host", ":", dst_path>>>>

\* scp with the password sent whether or not the prompt was seen
ScpAlwaysPassword(action, src_path, dst_path, timeout, seen1, seen2) ==
    LET got1 == Expect(<<TIMEOUT, "assword:">>, seen1)
        got2 == Expect(<<"100%", TIMEOUT>>, seen2)
        trace == <<Sendline(ScpCommand(action, src_path, dst_path)),
                   Op("expect", <<TIMEOUT, "assword:">>, PasswordWindow, got1, <<>>),
                   Sendline(<<"password">>),
                   Op("expect_exact", <<"100%", TIMEOUT>>, timeout, got2, <<>>)>>
    IN IF got2 # 0
          THEN CxRaise(trace, "SCPConnectionError", <<"Failed to scp from", src_path, "to", dst_path>>)
          ELSE CxReturn(trace, <<>>)

\* scp(console, "host", "22", "user", "password", src_path, dst_path, action, timeout);
\* seen1 and seen2 are what the console shows during the two waits
Scp(action, src_path, dst_path, timeout, seen1, seen2) ==
    LET got1 == Expect(<<TIMEOUT, "assword:">>, seen1)
        got2 == Expect(<<"100%", TIMEOUT>>, seen2)
        trace == <<Sendline(ScpCommand(action, src_path, dst_path)),
                   Op("expect", <<TIMEOUT, "assword:">>, PasswordWindow, got1, <<>>)>>
                 \o (IF got1 # 0 THEN <<Sendline(<<"password">>)>> ELSE <<>>)
                 \o <<Op("expect_exact", <<"100%", TIMEOUT>>, timeout, got2, <<>>)>>
    IN IF got2 # 0
          THEN CxRaise(trace, "SCPConnectionError", <<"Failed to scp from", src_path, "to", dst_path>>)
          ELSE CxReturn(trace, <<>>)

CxScp ==
    \E action \in {"download", "upload"}, src_path \in {"/a/src", "/b/src"},
       dst_path \in {"/a/dst", "/b/dst"}, timeout \in {ScpTimeout, 5},
       seen1 \in {"assword:", "nothing"}, seen2 \in {"100%", "nothing"} :
        CxDone("scp", <<action, src_path, dst_path, timeout, seen1, seen2>>,
               Scp(action, src_path, dst_path, timeout, seen1, seen2))

\* ---- LinuxWAN.connect_to_board_via_reverse_ssh

board_prompt == "root@[\\w-]+:[\\w/~]+#"
shell_prompt == "self._shell_prompt"

\* connect_to_board_via_reverse_ssh without the test of rssh_password
ReverseSshAnyPassword(rssh_password, seen1, seen2, seen3) ==
    CxReturn(<<Sendline(<<"ssh", <<"root", "@localhost">>, "-p", "2222",
                          "-o StrictHostKeyChecking=no", "-o UserKnownHostsFile=/dev/null">>),
               Op("expect", <<board_prompt>>, DefaultTimeout, Expect(<<board_prompt>>, seen1), <<>>),
               Sendline(<<"ifconfig erouter0">>),
               Op("expect", <<board_prompt>>, DefaultTimeout, Expect(<<board_prompt>>, seen2), <<>>),
               Sendline(<<"exit">>),
               Op("expect", <<shell_prompt>>, DefaultTimeout, Expect(<<shell_prompt>>, seen3), <<>>)>>,
             <<>>)

\* connect_to_board_via_reverse_ssh("root", rssh_password, "2222"); an expect
\* of one pattern raises TIMEOUT when the console does not show it
ReverseSsh(rssh_password, seen1, seen2, seen3) ==
    IF rssh_password # PyNone
       THEN CxRaise(<<>>, "ValueError",
                    <<"It is unexpected that a password must be used to connect to the CPE">>)
    ELSE LET got1 == Expect(<<board_prompt>>, seen1)
             got2 == Expect(<<board_prompt>>, seen2)
             got3 == Expect(<<shell_prompt>>, seen3)
             t1 == <<Sendline(<<"ssh", <<"root", "@localhost">>, "-p", "2222",
                                "-o StrictHostKeyChecking=no", "-o UserKnownHostsFile=/dev/null">>),
                     Op("expect", <<board_prompt>>, DefaultTimeout, got1, <<>>)>>
             t2 == t1 \o <<Sendline(<<"ifconfig erouter0">>),
                           Op("expect", <<board_prompt>>, DefaultTimeout, got2, <<>>)>>
             t3 == t2 \o <<Sendline(<<"exit">>),
                           Op("expect", <<shell_prompt>>, DefaultTimeout, got3, <<>>)>>
         IN IF got1 = Raised THEN CxRaise(t1, TIMEOUT, <<>>)
            ELSE IF got2 = Raised THEN CxRaise(t2, TIMEOUT, <<>>)
            ELSE IF got3 = Raised THEN CxRaise(t3, TIMEOUT, <<>>)
            ELSE CxReturn(t3, <<>>)

CxReverseSsh ==
    \E rssh_password \in {PyNone, PyStr("bigfoot1"), PyStr("")},
       seen1 \in {board_prompt, "nothing"}, seen2 \in {board_prompt, "nothing"},
       seen3 \in {shell_prompt, "nothing"} :
        CxDone("connect_to_board_via_reverse_ssh", <<rssh_password, seen1, seen2, seen3>>,
               ReverseSsh(rssh_password, seen1, seen2, seen3))

\* ---- networking.start_tcpdump, stop_tcpdump

\* start_tcpdump(console, "eth1", port, "pkt_capture.pcap", None, additional_filters);
\* output is what execute_command returns: the job line "[1] <pid>" or none
StartTcpdump(port, additional_filters, output, seen) ==
    IF additional_filters = PyNone
       THEN CxRaise(<<>>, "TypeError", <<>>)
    ELSE LET command == <<"tcpdump -U -i", "eth1", "-n -w", "pkt_capture.pcap">>
             filter_str == additional_filters.v
             listening == "tcpdump: listening on eth1"
             got == Expect(<<listening, TIMEOUT>>, seen)
             trace == <<Op("execute_command",
                           IF Truthy(port)
                              THEN command \o <<"'portrange", port.v, "'", filter_str, "&">>
                              ELSE command \o <<filter_str, "&">>,
                           DefaultTimeout, 0, output),
                        Op("expect_exact", <<listening, TIMEOUT>>, DefaultTimeout, got, <<>>)>>
         IN IF got # 0
               THEN CxRaise(trace, "ValueError", <<"Failed to start tcpdump on", "eth1">>)
            ELSE IF output = <<>>
               THEN CxRaise(trace, "TypeError", <<>>)
            ELSE CxReturn(trace, <<output[2]>>)

CxStartTcpdump ==
    \E port \in {PyNone, PyStr(""), PyStr("443")}, additional_filters \in {PyStr(""), PyStr("-vv"), PyNone},
       output \in {<<"[1]", "4242">>, <<>>}, seen \in {"tcpdump: listening on eth1", "nothing"} :
        CxDone("start_tcpdump", <<port, additional_filters, output, seen>>,
               StartTcpdump(port, additional_filters, output, seen))

\* stop_tcpdump(console, process_id)
StopTcpdump(process_id, seen) ==
    LET got == Expect(<<"packets captured", TIMEOUT>>, seen)
        trace == <<Op("execute_command", <<"kill", process_id>>, DefaultTimeout, 0, <<>>),
                   Op("expect_exact", <<"packets captured", TIMEOUT>>, DefaultTimeout, got, <<>>)>>
    IN IF got # 0
          THEN CxRaise(trace, "ValueError", <<"Failed to stop tcpdump process with PID", process_id>>)
          ELSE CxReturn(trace, <<>>)

CxStopTcpdump ==
    \E process_id \in {"4242", "77"}, seen \in {"packets captured", "nothing"} :
        CxDone("stop_tcpdump", <<process_id, seen>>, StopTcpdump(process_id, seen))

\* ---- claims about scp

CxSent(string) == SelectSeq(cx_trace, LAMBDA o : o[1] = "sendline" /\ o[2] = string)

\* C14: after the copy command is sent, the password is sent exactly once
\* if and only if a password prompt is observed within the 10-second
\* window; then, if "100%" is not observed within `timeout` the call fails
\* with a connection-failure error whose message names src_path and
\* dst_path, and if it is observed the call returns normally.
C14_Scp ==
    cx_call.fn = "scp" =>
        LET src_path == cx_call.args[2]
            dst_path == cx_call.args[3]
            timeout == cx_call.args[4]
            prompted == cx_call.args[5] = "assword:"
            completed == cx_call.args[6] = "100%"
            last == cx_trace[Len(cx_trace)]
        IN /\ cx_trace[1][1] = "sendline"
           /\ cx_trace[1][2][1] = "scp -o StrictHostKeyChecking=no -o UserKnownHostsFile=/dev/null"
           /\ cx_trace[2][1] = "expect" /\ cx_trace[2][3] = 10
           /\ Len(CxSent(<<"password">>)) = (IF prompted THEN 1 ELSE 0)
           /\ Len(cx_trace) = (IF prompted THEN 4 ELSE 3)
           /\ prompted => cx_trace[3] = Sendline(<<"password">>)
           /\ last[1] = "expect_exact" /\ last[2][1] = "100%" /\ last[3] = timeout
           /\ IF completed
                 THEN cx_call.result = "returned"
                 ELSE /\ cx_call.result = "raised"
                      /\ cx_call.error = "SCPConnectionError"
                      /\ \E i, j \in DOMAIN cx_call.value :
                            cx_call.value[i] = src_path /\ cx_call.value[j] = dst_path

\* a download that is asked for the password and never shows "100%"
C14_Witness ==
    /\ cx_call.fn = "scp"
    /\ cx_call.args = <<"download", "/a/src", "/b/dst", 30, "assword:", "nothing">>
    /\ cx_call.result = "raised"
    /\ Len(cx_trace) = 4
    /\ cx_call.value = <<"Failed to scp from", "/a/src", "to", "/b/dst">>

\* ---- claims about connect_to_board_via_reverse_ssh

\* the operations of the last call without their timeouts and results
CxSteps == [i \in DOMAIN cx_trace |-> <<cx_trace[i][1], cx_trace[i][2]>>]

\* the waits of the last call that ended in a timeout
CxTimedOut ==
    {i \in DOMAIN cx_trace :
        /\ cx_trace[i][1] \in {"expect", "expect_exact"}
        /\ \/ cx_trace[i][4] = Raised
           \/ cx_trace[i][4] # Raised /\ cx_trace[i][2][cx_trace[i][4] + 1] = TIMEOUT}

SixSteps ==
    <<<<"sendline", <<"ssh", <<"root", "@localhost">>, "-p", "2222",
                      "-o StrictHostKeyChecking=no", "-o UserKnownHostsFile=/dev/null">>>>,
      <<"expect", <<"root@[\\w-]+:[\\w/~]+#">>>>,
      <<"sendline", <<"ifconfig erouter0">>>>,
      <<"expect", <<"root@[\\w-]+:[\\w/~]+#">>>>,
      <<"sendline", <<"exit">>>>,
      <<"expect", <<"self._shell_prompt">>>>>>

\* C19: with a password that is not absent the call fails with an
\* invalid-input error and nothing is sent to the console; with the password
\* absent the console exchange is exactly: send the ssh command, wait for
\* the board prompt, send `ifconfig erouter0`, wait for the board prompt,
\* send `exit`, wait for the WAN shell prompt.
C19_ExactExchange ==
    cx_call.fn = "connect_to_board_via_reverse_ssh" =>
        IF cx_call.args[1] # PyNone
           THEN cx_call.result = "raised" /\ cx_call.error = "ValueError" /\ cx_trace = <<>>
           ELSE CxSteps = SixSteps

\* C19 as it holds: with a password the call fails with ValueError and the
\* console gets nothing; with the password absent the exchange is the six
\* steps in order as long as every wait sees its prompt, and the call
\* returns; a wait that times out raises TIMEOUT and ends the exchange
\* there, so that the exchange is the first 2, 4 or 6 of the six steps.
C19_ExchangeUnlessTimeout ==
    cx_call.fn = "connect_to_board_via_reverse_ssh" =>
        IF cx_call.args[1] # PyNone
           THEN cx_call.result = "raised" /\ cx_call.error = "ValueError" /\ cx_trace = <<>>
           ELSE /\ Len(cx_trace) \in {2, 4, 6}
                /\ CxSteps = SubSeq(SixSteps, 1, Len(cx_trace))
                /\ IF CxTimedOut = {}
                      THEN CxSteps = SixSteps /\ cx_call.result = "returned"
                      ELSE /\ CxTimedOut = {Len(cx_trace)}
                           /\ cx_call.result = "raised" /\ cx_call.error = TIMEOUT

\* the password is absent and every wait sees its prompt: six steps
C19_Witness ==
    /\ cx_call.fn = "connect_to_board_via_reverse_ssh"
    /\ cx_call.args = <<PyNone, "root@[\\w-]+:[\\w/~]+#", "root@[\\w-]+:[\\w/~]+#", "self._shell_prompt">>
    /\ cx_call.result = "returned"
    /\ Len(cx_trace) = 6

\* the password is absent and the second wait times out: four steps
C19_WitnessTimeout ==
    /\ cx_call.fn = "connect_to_board_via_reverse_ssh"
    /\ cx_call.args[1] = PyNone
    /\ cx_call.result = "raised"
    /\ Len(cx_trace) = 4

\* ---- claims about start_tcpdump and stop_tcpdump

\* every wait of the last call comes after an execute_command
CxWaitAfterCommand ==
    \A i \in DOMAIN cx_trace :
        cx_trace[i][1] = "expect_exact" => \E j \in 1..(i - 1) : cx_trace[j][1] = "execute_command"

\* C20: start_tcpdump fails with an error if and only if the wait for
\* "tcpdump: listening on <interface>" ends in a timeout, stop_tcpdump fails
\* if and only if the wait for "packets captured" ends in a timeout, and in
\* each case the wait is issued only after the command has been sent.
C20_FailsIffTimeout ==
    cx_call.fn \in {"start_tcpdump", "stop_tcpdump"} =>
        /\ cx_call.result = "raised" <=> CxTimedOut # {}
        /\ CxWaitAfterCommand

\* what holds of both: no normal return after a timeout, ValueError exactly
\* on a timeout, the wait after the command; stop_tcpdump fails only then
C20_NoReturnAfterTimeout ==
    cx_call.fn \in {"start_tcpdump", "stop_tcpdump"} =>
        /\ CxTimedOut # {} <=> (cx_call.result = "raised" /\ cx_call.error = "ValueError")
        /\ CxWaitAfterCommand
        /\ cx_call.fn = "stop_tcpdump" => (cx_call.result = "raised" <=> CxTimedOut # {})

\* start_tcpdump saw "tcpdump: listening on eth1" and fails all the same
C20_FailsWithoutTimeout ==
    /\ cx_call.fn = "start_tcpdump"
    /\ cx_call.args = <<PyStr("443"), PyStr(""), <<>>, "tcpdump: listening on eth1">>
    /\ cx_call.result = "raised"
    /\ cx_call.error = "TypeError"
    /\ CxTimedOut = {}

-----------------------------------------------------------------------------
(* Functions of one call: get_nth_mac_address, get_pytest_name (utils.py), *)
(* http_get / HTTPResult (networking.py).  A text is the sequence of the    *)
(* pieces the code tells apart in it.                                       *)

MaxNth == 3
MaxSeparators == 3
MaxTranscript == 3

UtInit == util_call = <<"", <<>>, "none", <<>>, <<>>>>
UtIdle == util_call = <<"", <<>>, "idle", <<>>, <<>>>>

\* a call ran: outcome is "returned" or the name of the exception raised
UtDone(fn, args, run) ==
    /\ util_call[3] # "idle"
    /\ util_call' = <<fn, args, run[1], run[2], run[3]>>
    /\ UNCHANGED notUt

\* ---- utils.get_nth_mac_address
\* A MAC address text is <<separator, the six octets>>, an octet the pair
\* of its hexadecimal digits.

HexDigits == <<"0", "1", "2", "3", "4", "5", "6", "7", "8", "9", "a", "b", "c", "d", "e", "f">>

HexValue(c) ==
    CASE c = "A" -> 10 [] c = "B" -> 11 [] c = "C" -> 12
      [] c = "D" -> 13 [] c = "E" -> 14 [] c = "F" -> 15
      [] OTHER -> (CHOOSE i \in DOMAIN HexDigits : HexDigits[i] = c) - 1

\* int(EUI(mac_address)): the integer, written in base 256
MacToInt(mac_address) ==
    [i \in 1..6 |-> 16 * HexValue(mac_address[2][i][1]) + HexValue(mac_address[2][i][2])]

\* str(EUI(value, dialect=mac_unix_expanded)): colons, two lower-case digits
IntToMac(value) ==
    <<":", [i \in 1..6 |-> <<HexDigits[(value[i] \div 16) + 1], HexDigits[(value[i] % 16) + 1]>>]>>

\* get_nth_mac_address adding nth_number to the last octet alone
GetNthMacLastOctet(mac_address, nth_number) ==
    LET base == MacToInt(mac_address)
    IN <<"returned", IntToMac([base EXCEPT ![6] = (base[6] + nth_number) % 256]), <<>>>>

\* an integer above 2**48 - 1 leaves EUI(...) or str(...) by an exception
get_nth_mac_address(mac_address, nth_number) ==
    LET value == AddrAdd(MacToInt(mac_address), nth_number, 256)
    IN IF value = AddrError
          THEN <<"netaddr error", <<>>, <<>>>>
          ELSE <<"returned", IntToMac(value), <<>>>>

Octets(text) == [i \in 1..6 |-> <<text[2 * i - 1], text[2 * i]>>]

MacAddresses ==
    {<<":", Octets(<<"0", "0", "1", "1", "2", "2", "3", "3", "4", "4", "0", "0">>)>>,
     <<"-", Octets(<<"0", "0", "1", "1", "2", "2", "3", "3", "4", "4", "F", "F">>)>>,
     <<":", Octets(<<"0", "0", "1", "1", "2", "2", "f", "f", "f", "f", "f", "e">>)>>,
     <<":", Octets(<<"0", "a", "f", "f", "f", "f", "f", "f", "f", "f", "f", "f">>)>>,
     <<":", Octets(<<"f", "f", "f", "f", "f", "f", "f", "f", "f", "f", "f", "e">>)>>,
     <<"-", Octets(<<"F", "F", "F", "F", "F", "F", "F", "F", "F", "F", "F", "F">>)>>}

UtGetNthMac ==
    \E mac_address \in MacAddresses, nth_number \in 0..MaxNth :
        UtDone("get_nth_mac_address", <<mac_address, nth_number>>,
               get_nth_mac_address(mac_address, nth_number))

\* ---- utils.get_pytest_name
\* PYTEST_CURRENT_TEST is a sequence of pieces: "::", " (setup)", " " and
\* pieces of text without any of these.

\* text.split(sep)[0]
BeforeFirst(text, sep) ==
    IF \E i \in DOMAIN text : text[i] = sep
       THEN SubSeq(text, 1, (CHOOSE i \in DOMAIN text :
                                text[i] = sep /\ \A j \in 1..(i - 1) : text[j] # sep) - 1)
       ELSE text

\* text.split(sep)[1:] joined again by sep: what follows the first sep
AfterFirst(text, sep) ==
    SubSeq(text, (CHOOSE i \in DOMAIN text :
                     text[i] = sep /\ \A j \in 1..(i - 1) : text[j] # sep) + 1, Len(text))

\* text.replace(" ", "_")
Underscored(text) == [i \in DOMAIN text |-> IF text[i] = " " THEN "_" ELSE text[i]]

\* os.environ.get("PYTEST_CURRENT_TEST").split(" (setup)")[0].split("::")[1].replace(" ", "_")
get_pytest_name(current_test) ==
    LET head == BeforeFirst(current_test, " (setup)")
    IN IF \A i \in DOMAIN head : head[i] # "::"
          THEN <<"IndexError", <<>>, <<>>>>
          ELSE <<"returned", Underscored(BeforeFirst(AfterFirst(head, "::"), "::")), <<>>>>

\* <file>::<class>::...::<test name><suffix> with n separators
RECURSIVE TestId(_, _, _)
TestId(n, name, suffix) ==
    IF n = 1 THEN <<"tests/test_a.py", "::">> \o name \o suffix
    ELSE LET inner == TestId(n - 1, name, suffix)
         IN <<inner[1], "::", IF n = 2 THEN "TestCls" ELSE "TestInner">> \o Tail(inner)

UtGetPytestName ==
    \E n \in 1..MaxSeparators, name \in {<<"test_x">>, <<"test_x[a", " ", "b]">>},
       suffix \in {<<>>, <<" (setup)">>, <<" (call)">>} :
        UtDone("get_pytest_name", <<TestId(n, name, suffix)>>,
               get_pytest_name(TestId(n, name, suffix)))

\* ---- networking.http_get, HTTPResult
\* A transcript is the sequence of the pieces of curl's output the code
\* can tell apart.

TranscriptPieces ==
    {"Connection refused", "Connection timed out", "<!DOCTYPE html><html></html>",
     "<head></head>", "< HTTP/1.1 200 OK", "* Trying 10.0.0.1"}

Transcripts == UNION {[1..n -> TranscriptPieces] : n \in 0..MaxTranscript}

Has(response, piece) == \E i \in DOMAIN response : response[i] = piece

\* HTTPResult._parse_response with the test for a failed connection after
\* the three extractions
ParseThenTest(response) ==
    LET docs == SelectSeq(response, LAMBDA p : p \in {"<!DOCTYPE html><html></html>", "<head></head>"})
        codes == SelectSeq(response, LAMBDA p : p = "< HTTP/1.1 200 OK")
    IN IF docs = <<>> THEN <<"IndexError", <<>>, <<"findall raw">>>>
       ELSE IF codes = <<>> THEN <<"IndexError", <<>>, <<"findall raw", "findall code">>>>
       ELSE IF Has(response, "Connection refused") \/ Has(response, "Connection timed out")
          THEN <<"UseCaseFailure", <<>>, <<"findall raw", "findall code", "prettify">>>>
       ELSE <<"returned", <<>>, <<"findall raw", "findall code", "prettify">>>>

\* HTTPResult._parse_response: the outcome, (raw, code), and the extractions
\* attempted; findall gives the captured group of each match
ParseResponse(response) ==
    LET docs == SelectSeq(response, LAMBDA p : p \in {"<!DOCTYPE html><html></html>", "<head></head>"})
        codes == SelectSeq(response, LAMBDA p : p = "< HTTP/1.1 200 OK")
        raw == IF docs[1] = "<head></head>" THEN "head" ELSE "!DOC"
    IN IF Has(response, "Connection refused") \/ Has(response, "Connection timed out")
          THEN <<"UseCaseFailure", <<>>, <<>>>>
       ELSE IF docs = <<>> THEN <<"IndexError", <<>>, <<"findall raw">>>>
       ELSE IF codes = <<>> THEN <<"IndexError", <<>>, <<"findall raw", "findall code">>>>
       ELSE <<"returned", <<raw, "200">>, <<"findall raw", "findall code", "prettify">>>>

\* http_get(console, url, 20): the transcript is what the console returns
\* for the curl command
UtHttpGet ==
    \E response \in Transcripts :
        UtDone("http_get", <<"curl -v --connect-timeout", 20, "http://10.0.0.1/", response>>,
               ParseResponse(response))

\* ---- claims about http_get

\* C15: a transcript containing "Connection refused" or "Connection timed
\* out" raises the operation-failed error before any body, status-code or
\* pretty-print extraction is attempted, also when it holds a well-formed
\* HTML body and status line.
C15_FailsBeforeParsing ==
    (/\ util_call[1] = "http_get"
     /\ \E i \in DOMAIN util_call[2][4] :
           util_call[2][4][i] \in {"Connection refused", "Connection timed out"}) =>
        /\ util_call[3] = "UseCaseFailure"
        /\ util_call[5] = <<>>

\* a refused connection whose transcript holds a body and a status line
C15_Witness ==
    /\ util_call[1] = "http_get"
    /\ util_call[2][4] = <<"< HTTP/1.1 200 OK", "<!DOCTYPE html><html></html>", "Connection refused">>
    /\ util_call[3] = "UseCaseFailure"
    /\ util_call[5] = <<>>

\* ---- claims about get_nth_mac_address

\* the integer of an address in two halves of 24 bits
MacHigh(value) == (value[1] * 256 + value[2]) * 256 + value[3]
MacLow(value) == (value[4] * 256 + value[5]) * 256 + value[6]

MacBaseOfCall == MacToInt(util_call[2][1])
MacSumLow == MacLow(MacBaseOfCall) + util_call[2][2]
MacSumHigh == MacHigh(MacBaseOfCall) + (MacSumLow \div 16777216)

MacResultIsSum ==
    /\ util_call[3] = "returned"
    /\ util_call[4][1] = ":"
    /\ MacLow(MacToInt(util_call[4])) = MacSumLow % 16777216
    /\ MacHigh(MacToInt(util_call[4])) = MacSumHigh

\* C16: for every valid 48-bit base address and non-negative n the integer
\* of the returned address is the integer of base plus n.
C16_BasePlusN ==
    util_call[1] = "get_nth_mac_address" => MacResultIsSum

\* C16 as it holds: when base plus n is at most 2**48 - 1 an address is
\* returned and its integer is base plus n; above that no address is
\* returned (the call raises).
C16_BasePlusNInRange ==
    util_call[1] = "get_nth_mac_address" =>
        IF MacSumHigh < 16777216 THEN MacResultIsSum ELSE util_call[3] # "returned"

\* 00-11-22-33-44-FF and n = 1 give 00:11:22:33:45:00
C16_Witness ==
    /\ util_call[1] = "get_nth_mac_address"
    /\ util_call[2] = <<<<"-", Octets(<<"0", "0", "1", "1", "2", "2", "3", "3", "4", "4", "F", "F">>)>>, 1>>
    /\ util_call[4] = <<":", Octets(<<"0", "0", "1", "1", "2", "2", "3", "3", "4", "5", "0", "0">>)>>

\* 00:11:22:33:44:00 and n = 1 give 00:11:22:33:44:01
C16_WitnessExample ==
    /\ util_call[1] = "get_nth_mac_address"
    /\ util_call[2] = <<<<":", Octets(<<"0", "0", "1", "1", "2", "2", "3", "3", "4", "4", "0", "0">>)>>, 1>>
    /\ util_call[4] = <<":", Octets(<<"0", "0", "1", "1", "2", "2", "3", "3", "4", "4", "0", "1">>)>>

\* ---- claims about get_pytest_name

\* what follows the last "::" of a text
RECURSIVE AfterLast(_)
AfterLast(text) ==
    IF \E i \in DOMAIN text : text[i] = "::"
       THEN AfterLast(SubSeq(text, (CHOOSE i \in DOMAIN text : text[i] = "::") + 1, Len(text)))
       ELSE text

\* the test name of the claim: the segment after the last "::" without a
\* " (setup)" suffix and with "_" for every space
NameOfClaim(current_test) ==
    LET last == AfterLast(current_test)
        bare == IF last # <<>> /\ last[Len(last)] = " (setup)"
                   THEN SubSeq(last, 1, Len(last) - 1) ELSE last
    IN [i \in DOMAIN bare |-> IF bare[i] = " " THEN "_" ELSE bare[i]]

\* C18: for every identifier <seg>::<seg>::...::<test name>[ (setup)] with
\* one or more "::", get_pytest_name returns the segment after the last
\* "::", with a " (setup)" suffix stripped and spaces replaced by
\* underscores.
C18_LastSegment ==
    util_call[1] = "get_pytest_name" =>
        /\ util_call[3] = "returned"
        /\ util_call[4] = NameOfClaim(util_call[2][1])

\* with exactly one "::" the claim holds
C18_LastSegmentOfTwo ==
    (/\ util_call[1] = "get_pytest_name"
     /\ Cardinality({i \in DOMAIN util_call[2][1] : util_call[2][1][i] = "::"}) = 1) =>
        /\ util_call[3] = "returned"
        /\ util_call[4] = NameOfClaim(util_call[2][1])

\* tests/test_a.py::TestCls::test_x (setup) gives TestCls
C18_ClassNameReturned ==
    /\ util_call[1] = "get_pytest_name"
    /\ util_call[2][1] = <<"tests/test_a.py", "::", "TestCls", "::", "test_x", " (setup)">>
    /\ util_call[3] = "returned"
    /\ util_call[4] = <<"TestCls">>

-----------------------------------------------------------------------------
(* linux_wan.LinuxWAN: _setup_wan and contingency_check                    *)
(* A text that the code takes apart (the value of "options", a route) is   *)
(* the sequence of its words; a directive is <<prefix, rest>>, which is    *)
(* what startswith(prefix) and replace(prefix, "") make of it.             *)

MaxOptions == 3

\* self.iface_dut
iface_dut == "eth1"

AddressValueError == "AddressValueError"

\* str(IPv4Interface(value)): the address with its prefix length, /32 when
\* the text has none; a text that is no address raises
IPv4Interface(value) ==
    CASE value = "10.0.0.1/24" -> "10.0.0.1/24"
      [] value = "10.0.0.2" -> "10.0.0.2/32"
      [] OTHER -> AddressValueError

\* str(IPv6Interface(value)): lower case, zeros compressed
IPv6Interface(value) ==
    CASE value = "2001:DB8:0:0::1/64" -> "2001:db8::1/64"
      [] OTHER -> AddressValueError

\* text.replace(old, new) for a word `old` and the words `new`
RECURSIVE Replace(_, _, _)
Replace(text, old, new) ==
    IF text = <<>> THEN <<>>
    ELSE (IF Head(text) = old THEN new ELSE <<Head(text)>>) \o Replace(Tail(text), old, new)

\* text.split(sep) for a word `sep`: "".split(sep) is [""]
RECURSIVE Split(_, _)
Split(text, sep) ==
    IF \E i \in DOMAIN text : text[i] = sep
       THEN LET i == CHOOSE j \in DOMAIN text :
                        text[j] = sep /\ \A k \in 1..(j - 1) : text[k] # sep
            IN <<SubSeq(text, 1, i - 1)>> \o Split(SubSeq(text, i + 1, Len(text)), sep)
       ELSE <<text>>

\* the console commands of _setup_wan
IfconfigCommand(state) == <<"ifconfig", iface_dut, state>>
AcceptDadCommand == <<"sysctl -w", "net.ipv6.conf.", iface_dut, ".accept_dad=0">>
AddrCommand(family, verb, interface) == <<"ip", family, "addr", verb, interface, "dev", iface_dut>>
RouteDelCommand(route) == <<"ip route del">> \o Split(route, "via")[1]
RouteAddCommand(route) == <<"ip route add">> \o route

\* the values the directives carry
RouteTexts ==
    {<<>>,
     <<"10.2.0.0/16">>,
     <<"10.1.0.0/24", "-", "10.0.0.254">>,
     <<"default", "-", "10.0.0.1", ";", "10.1.0.0/24", "-", "10.0.0.254">>}

Directives ==
    {<<"wan-static-route:", r>> : r \in RouteTexts}
    \cup {<<"wan-static-ip:", <<a>>>> : a \in {"10.0.0.1/24", "10.0.0.2", "10.0.0.300/24"}}
    \cup {<<"wan-static-ipv6:", <<"2001:DB8:0:0::1/64">>>>}
    \cup {<<o, <<>>>> : o \in {"wan-dhcp-client", "wan-no-eth0", "wan-no-dhcp-server",
                               "wan-dhcp-client-v6", "lan-fixed-route"}}

OptionLists == UNION {[1..n -> Directives] : n \in 0..MaxOptions}

WanNoCall == <<"", <<>>, "none", "", <<>>>>

\* LinuxWAN.__init__
WanInit ==
    /\ wan_config \in {<<FALSE, <<>>>>} \cup {<<TRUE, o>> : o \in OptionLists}
    /\ wan_static_route = <<>>
    /\ wan_flags = <<FALSE, FALSE, FALSE, FALSE>>
    /\ wan_console = <<>>
    /\ wan_call = WanNoCall

WanIdle ==
    /\ wan_config = <<FALSE, <<>>>>
    /\ wan_static_route = <<>>
    /\ wan_flags = <<FALSE, FALSE, FALSE, FALSE>>
    /\ wan_console = <<>>
    /\ wan_call = <<"", <<>>, "idle", "", <<>>>>

\* one pass of `for opt in options:`; st is what the loop has made so far
SetupOption(st, opt) ==
    IF st.error # "" THEN st
    ELSE CASE opt[1] = "wan-static-route:" ->
                 [st EXCEPT !.route = Replace(opt[2], "-", <<" ", "via", " ">>)]
           [] opt[1] = "wan-dhcp-client" -> [st EXCEPT !.flags[1] = TRUE]
           [] opt[1] = "wan-no-eth0" -> [st EXCEPT !.flags[2] = TRUE]
           [] opt[1] = "wan-no-dhcp-server" -> [st EXCEPT !.flags[3] = FALSE]
           [] opt[1] = "wan-dhcp-client-v6" -> [st EXCEPT !.flags[4] = TRUE]
           [] opt[1] = "wan-static-ipv6:" ->
                 LET ipv6_interface == IPv6Interface(opt[2][1])
                 IN IF ipv6_interface = AddressValueError
                       THEN [st EXCEPT !.error = AddressValueError]
                       ELSE [st EXCEPT !.trace = @ \o
                                <<AcceptDadCommand,
                                  AddrCommand("-6", "del", ipv6_interface),
                                  AddrCommand("-6", "add", ipv6_interface)>>]
           [] opt[1] = "wan-static-ip:" ->
                 LET ipv4_interface == IPv4Interface(opt[2][1])
                 IN IF ipv4_interface = AddressValueError
                       THEN [st EXCEPT !.error = AddressValueError]
                       ELSE [st EXCEPT !.trace = @ \o
                                <<AddrCommand("-4", "del", ipv4_interface),
                                  AddrCommand("-4", "add", ipv4_interface)>>]
           [] OTHER -> st

RECURSIVE SetupOptions(_, _)
SetupOptions(st, options) ==
    IF options = <<>> THEN st
    ELSE SetupOptions(SetupOption(st, Head(options)), Tail(options))

\* `for route in self._static_route.split(";")`
RECURSIVE RouteCommands(_)
RouteCommands(routes) ==
    IF routes = <<>> THEN <<>>
    ELSE <<RouteDelCommand(Head(routes)), RouteAddCommand(Head(routes))>>
         \o RouteCommands(Tail(routes))

\* _setup_wan with the route commands sent as each route directive is met
SetupWanRoutesAtOnce(config, static_route, flags) ==
    LET RECURSIVE Go(_, _)
        Go(st, options) ==
            IF options = <<>> THEN st
            ELSE LET st1 == SetupOption(st, Head(options))
                 IN Go(IF Head(options)[1] = "wan-static-route:" /\ st1.route # <<>>
                          THEN [st1 EXCEPT !.trace = @ \o RouteCommands(Split(st1.route, ";"))]
                          ELSE st1,
                       Tail(options))
    IN IF ~config[1]
          THEN [route |-> static_route, flags |-> flags, trace |-> <<>>, error |-> ""]
          ELSE Go([route |-> static_route, flags |-> flags,
                   trace |-> <<IfconfigCommand("down"), IfconfigCommand("up")>>,
                   error |-> ""], config[2])

\* LinuxWAN._setup_wan
SetupWan(config, static_route, flags) ==
    IF ~config[1]
       THEN [route |-> static_route, flags |-> flags, trace |-> <<>>, error |-> ""]
       ELSE LET st == SetupOptions([route |-> static_route, flags |-> flags,
                                    trace |-> <<IfconfigCommand("down"), IfconfigCommand("up")>>,
                                    error |-> ""], config[2])
            IN IF st.error = "" /\ st.route # <<>>
                  THEN [st EXCEPT !.trace = @ \o RouteCommands(Split(st.route, ";"))]
                  ELSE st

\* boardfarm_server_boot without skip_boot: _setup_wan runs once
WanSetupWan ==
    /\ wan_call[3] = "none"
    /\ LET st == SetupWan(wan_config, wan_static_route, wan_flags)
       IN /\ wan_static_route' = st.route
          /\ wan_flags' = st.flags
          /\ wan_console' = st.trace
          /\ wan_call' = <<"_setup_wan", <<>>,
                           IF st.error = "" THEN "returned" ELSE "raised", st.error, <<>>>>
    /\ UNCHANGED wan_config
    /\ UNCHANGED notWan

\* ---- claims about _setup_wan

IsAddrCommand(c, verb) == Len(c) = 7 /\ c[1] = "ip" /\ c[3] = "addr" /\ c[4] = verb
IsRouteCommand(c, verb) == c[1] = IF verb = "del" THEN "ip route del" ELSE "ip route add"
IsRoute(c) == IsRouteCommand(c, "del") \/ IsRouteCommand(c, "add")

\* the static-IP and static-IPv6 directives of the configuration, in order
StaticAddressDirectives ==
    SelectSeq(wan_config[2], LAMBDA o : o[1] \in {"wan-static-ip:", "wan-static-ipv6:"})

\* the family and the interface text the commands of a directive carry
AddressOfDirective(o) ==
    IF o[1] = "wan-static-ip:" THEN <<"-4", IPv4Interface(o[2][1])>>
                               ELSE <<"-6", IPv6Interface(o[2][1])>>

\* the ";"-separated clauses of the static route that is kept: the one of
\* the last static-route directive
KeptRouteClauses ==
    LET routes == SelectSeq(wan_config[2], LAMBDA o : o[1] = "wan-static-route:")
    IN IF routes = <<>> \/ routes[Len(routes)][2] = <<>> THEN <<>>
       ELSE Split(routes[Len(routes)][2], ";")

\* C22: after _setup_wan, a configuration without the "options" key has
\* issued no console command; otherwise the console has seen ifconfig down
\* then ifconfig up before anything else, then for each static-IP or
\* static-IPv6 directive in option order the address delete immediately
\* before the address add, and only after all of them, for each clause of the
\* static route in order, ip route del <destination> immediately before
\* ip route add <clause>. A directive whose address is no address ends the
\* call with an error: the directives before it have their commands, and
\* no route command is sent.
C22_CommandOrder ==
    wan_call[1] = "_setup_wan" =>
        LET c == wan_console
            adds == SelectSeq(c, LAMBDA x : IsAddrCommand(x, "add"))
            radds == SelectSeq(c, LAMBDA x : IsRouteCommand(x, "add"))
        IN IF ~wan_config[1] THEN c = <<>> /\ wan_call[3] = "returned"
           ELSE /\ Len(c) >= 2
                /\ c[1] = <<"ifconfig", "eth1", "down">>
                /\ c[2] = <<"ifconfig", "eth1", "up">>
                /\ \A k \in 3..Len(c) : c[k][1] # "ifconfig"
                \* delete immediately before add, one pair for each directive
                /\ \A k \in DOMAIN c :
                      /\ IsAddrCommand(c[k], "add") =>
                            k > 1 /\ c[k - 1] = [c[k] EXCEPT ![4] = "del"]
                      /\ IsAddrCommand(c[k], "del") =>
                            k < Len(c) /\ c[k + 1] = [c[k] EXCEPT ![4] = "add"]
                /\ Len(adds) <= Len(StaticAddressDirectives)
                /\ \A j \in DOMAIN adds :
                      /\ adds[j][2] = AddressOfDirective(StaticAddressDirectives[j])[1]
                      /\ adds[j][5] = AddressOfDirective(StaticAddressDirectives[j])[2]
                /\ wan_call[3] = "returned" <=> Len(adds) = Len(StaticAddressDirectives)
                \* routes only after everything else, del immediately before add
                /\ \A i, j \in DOMAIN c : IsRoute(c[i]) /\ ~IsRoute(c[j]) => j < i
                /\ \A k \in DOMAIN c :
                      /\ IsRouteCommand(c[k], "add") =>
                            k > 1 /\ IsRouteCommand(c[k - 1], "del")
                      /\ IsRouteCommand(c[k], "del") =>
                            k < Len(c) /\ IsRouteCommand(c[k + 1], "add")
                /\ wan_call[3] = "returned" =>
                      /\ Len(radds) = Len(KeptRouteClauses)
                      /\ \A j \in DOMAIN radds :
                            LET clause == KeptRouteClauses[j]
                                k == CHOOSE i \in DOMAIN c :
                                        /\ IsRouteCommand(c[i], "add")
                                        /\ Len(SelectSeq(SubSeq(c, 1, i),
                                                LAMBDA x : IsRouteCommand(x, "add"))) = j
                            IN /\ radds[j] = <<"ip route add">>
                                                \o Replace(clause, "-", <<" ", "via", " ">>)
                               /\ c[k - 1][2] = clause[1]
                               /\ \A w \in 3..Len(c[k - 1]) : c[k - 1][w] = " "
                /\ wan_call[3] = "raised" => radds = <<>>

\* a static route of two clauses, an IPv6 and an IPv4 address: 11 commands
C22_Witness ==
    /\ wan_call = <<"_setup_wan", <<>>, "returned", "", <<>>>>
    /\ wan_config[1]
    /\ Len(wan_config[2]) = 3
    /\ wan_config[2][1][1] = "wan-static-route:"
    /\ wan_config[2][2][1] = "wan-static-ipv6:"
    /\ wan_config[2][3] = <<"wan-static-ip:", <<"10.0.0.2">>>>
    /\ Len(wan_console) = 11
    /\ wan_console[6] = <<"ip", "-4", "addr", "del", "10.0.0.2/32", "dev", "eth1">>
    /\ wan_console[8] = <<"ip route del", "default", " ">>
    /\ wan_console[9] = <<"ip route add", "default", " ", "via", " ", "10.0.0.1">>
    /\ wan_console[11] = <<"ip route add", "10.1.0.0/24", " ", "via", " ", "10.0.0.254">>

\* no "options" key: the call returns with nothing sent
C22_WitnessNoOptions ==
    /\ wan_call = <<"_setup_wan", <<>>, "returned", "", <<>>>>
    /\ ~wan_config[1]
    /\ wan_console = <<>>

\* an address that is none: the call raises after the commands before it
C22_WitnessRaised ==
    /\ wan_call = <<"_setup_wan", <<>>, "raised", "AddressValueError", <<>>>>
    /\ Len(wan_console) = 4
    /\ wan_config[2][1][1] = "wan-static-route:"
    /\ wan_config[2][1][2] # <<>>

\* ---- contingency_check and _validate_dns_env_request

MaxAddresses == 2

\* a str among the values of a dictionary: DStr(n) is the decimal text of n
DStr(n) == [t |-> "str", n |-> n, items |-> <<>>]

\* bool(value) of a dictionary value
DTruthy(value) ==
    CASE value.t = "none" -> FALSE
      [] value.t = "int" -> value.n # 0
      [] value.t = "dict" -> value.items # <<>>
      [] OTHER -> TRUE

\* `key in mapping` and mapping[key] for a mapping given by its items
HasKey(items, key) == \E i \in DOMAIN items : items[i].name = key
AtKey(items, key) == items[CHOOSE i \in DOMAIN items : items[i].name = key].value

Item(name, value) == [name |-> name, value |-> value]

\* the addresses nslookup gives for the probe name, and the ones
\* AllValidIpv6AddressesRegex matches
LookupAddresses == {"10.0.0.10", "10.0.0.11", "2001:db8::10", "fe80::11"}
Ipv6Match(ip_address) == ip_address \in {"2001:db8::10", "fe80::11"}

\* the parsed nslookup output: "domain_ip_addr" is no key of it (Absent), or
\* its list
LookupOutputs ==
    {Absent} \cup {Some(l) : l \in UNION {[1..n -> LookupAddresses] : n \in 0..MaxAddresses}}

\* the expected counts of one IP version in the ACS_SERVER payload
ExpectedOfVersion ==
    {<<>>}
    \cup {<<Item("reachable", r)>> : r \in {DInt(0), DInt(1), DInt(2), DStr(1)}}
    \cup {<<Item("unreachable", u)>> : u \in {DInt(0), DInt(1)}}
    \cup {<<Item("reachable", r), Item("unreachable", u)>> :
             r \in {DInt(0), DInt(1), DInt(2), DStr(1)}, u \in {DInt(0), DInt(1)}}

\* the ACS_SERVER payloads: each version absent or with its expected counts,
\* after a key the check does not read
AcsServerConfigs ==
    {other \o v4 \o v6 :
        other \in {<<>>, <<Item("acs_mib", DNone)>>},
        v4 \in {<<>>} \cup {<<Item("ipv4", DDict(e))>> : e \in ExpectedOfVersion},
        v6 \in {<<>>} \cup {<<Item("ipv6", DDict(e))>> : e \in ExpectedOfVersion}}

\* the env requests: without ACS_SERVER, with it at the top, with it below
\* "environment_def"
EnvRequests ==
    {<<Item("environment_def", DDict(<<Item("board", DDict(<<>>))>>))>>}
    \cup {<<Item("ACS_SERVER", DDict(c))>> : c \in AcsServerConfigs}
    \cup {<<Item("environment_def", DDict(<<Item("ACS_SERVER", DDict(c))>>))>> :
             c \in {x \in AcsServerConfigs : Len(x) = 1}}

\* the events of a contingency check
NslookupEvent == <<"execute_command", "nslookup", "", "acs_server.boardfarm.com", "">>
PingEvent(ip_address, ping_count) == <<"ping", ip_address, ping_count>>

\* ping_status as <<ipv4 reachable, ipv4 unreachable, ipv6 reachable, ipv6 unreachable>>
StatusIndex(ip_version, status) ==
    (IF ip_version = "ipv4" THEN 0 ELSE 2) + (IF status = "reachable" THEN 1 ELSE 2)

\* the tally with every address counted as IPv4
PingStatusAllIpv4(addresses, pings) ==
    LET RECURSIVE Go(_, _)
        Go(i, ping_status) ==
            IF i > Len(addresses) THEN ping_status
            ELSE Go(i + 1,
                    [ping_status EXCEPT
                        ![StatusIndex("ipv4", IF pings[i] THEN "reachable" ELSE "unreachable")] = @ + 1])
    IN Go(1, <<0, 0, 0, 0>>)

\* `for ip_address in output.get("domain_ip_addr", [])`: pings[i] is what
\* self.ping(addresses[i], ping_count=2) returns
PingStatus(addresses, pings) ==
    LET RECURSIVE Go(_, _)
        Go(i, ping_status) ==
            IF i > Len(addresses) THEN ping_status
            ELSE LET ip_version == IF Ipv6Match(addresses[i]) THEN "ipv6" ELSE "ipv4"
                     status == IF pings[i] THEN "reachable" ELSE "unreachable"
                 IN Go(i + 1, [ping_status EXCEPT ![StatusIndex(ip_version, status)] = @ + 1])
    IN Go(1, <<0, 0, 0, 0>>)

\* `for ip_version, item in ping_status.items(): for status, value in
\* item.items():` from the k-th of the four pairs on; the pair that raises,
\* <<>> when none does
RECURSIVE FirstMismatch(_, _, _)
FirstMismatch(acs_server_config, ping_status, k) ==
    IF k > 4 THEN <<>>
    ELSE LET ip_version == IF k <= 2 THEN "ipv4" ELSE "ipv6"
             status == IF k % 2 = 1 THEN "reachable" ELSE "unreachable"
         IN IF ~HasKey(acs_server_config, ip_version)
               THEN FirstMismatch(acs_server_config, ping_status, k + 1)
            ELSE IF ~HasKey(AtKey(acs_server_config, ip_version).items, status)
               THEN FirstMismatch(acs_server_config, ping_status, k + 1)
            ELSE IF AtKey(AtKey(acs_server_config, ip_version).items, status) # DInt(ping_status[k])
               THEN <<ip_version, status>>
            ELSE FirstMismatch(acs_server_config, ping_status, k + 1)

\* LinuxWAN._validate_dns_env_request
ValidateDnsEnvRequest(acs_server_config, output, pings) ==
    LET addresses == IF output.some THEN output.a ELSE <<>>
        ping_status == PingStatus(addresses, pings)
        trace == <<NslookupEvent>> \o [i \in DOMAIN addresses |-> PingEvent(addresses[i], 2)]
        failed == FirstMismatch(acs_server_config, ping_status, 1)
    IN [trace |-> trace, ping_status |-> ping_status,
        outcome |-> IF failed = <<>> THEN "returned" ELSE "raised",
        error |-> IF failed = <<>> THEN "" ELSE "ContingencyCheckError",
        pair |-> failed]

\* LinuxWAN.contingency_check(env_req)
ContingencyCheck(skip_contingency_checks, env_req, output, pings) ==
    IF skip_contingency_checks
       THEN [trace |-> <<>>, ping_status |-> <<>>, outcome |-> "returned", error |-> "",
             pair |-> <<>>]
    ELSE LET getters == <<<<"get_eth_interface_ipv4_address">>,
                          <<"get_eth_interface_ipv6_address">>>>
             acs_server_config == get_value_from_dict("ACS_SERVER", env_req)
         IN IF DTruthy(acs_server_config)
               THEN LET v == ValidateDnsEnvRequest(acs_server_config.items, output, pings)
                    IN [v EXCEPT !.trace = getters \o @]
               ELSE [trace |-> getters, ping_status |-> <<>>, outcome |-> "returned",
                     error |-> "", pair |-> <<>>]

\* the device when contingency_check is called: made, _setup_wan not run
WanCheckInit ==
    /\ wan_config \in {<<FALSE, <<>>>>, <<TRUE, <<>>>>}
    /\ wan_static_route = <<>>
    /\ wan_flags = <<FALSE, FALSE, FALSE, FALSE>>
    /\ wan_console = <<>>
    /\ wan_call = WanNoCall

\* contingency_check keeps nothing from one call to the next: one call is
\* followed
WanContingencyCheck ==
    /\ wan_call[3] = "none"
    /\ \E skip \in BOOLEAN, env_req \in EnvRequests, output \in LookupOutputs,
          pings \in [1..MaxAddresses -> BOOLEAN] :
          \* arguments the call does not read are given one value only
          LET run == ContingencyCheck(skip, env_req, output, pings)
              asked == run.ping_status # <<>>
              n == IF asked /\ output.some THEN Len(output.a) ELSE 0
          IN /\ skip => env_req = <<Item("environment_def", DDict(<<Item("board", DDict(<<>>))>>))>>
             /\ ~asked => output = Absent
             /\ \A i \in (n + 1)..MaxAddresses : ~pings[i]
             /\ wan_console' = run.trace
             /\ wan_call' = <<"contingency_check", <<skip, env_req, output, pings>>,
                              run.outcome, run.error, run.ping_status>>
    /\ UNCHANGED <<wan_config, wan_static_route, wan_flags>>
    /\ UNCHANGED notWan

\* ---- claims about the contingency check

\* the ACS_SERVER payload of the env request of the last call
PayloadOfCall ==
    LET env_req == wan_call[2][2]
    IN IF HasKey(env_req, "ACS_SERVER") THEN AtKey(env_req, "ACS_SERVER").items
       ELSE IF HasKey(AtKey(env_req, "environment_def").items, "ACS_SERVER")
          THEN AtKey(AtKey(env_req, "environment_def").items, "ACS_SERVER").items
       ELSE <<>>

\* the addresses the lookup of the last call returned
AddressesOfCall == IF wan_call[2][3].some THEN wan_call[2][3].a ELSE <<>>

\* how many of them are of the version and answered the ping as the status says
TallyOfCall(ip_version, status) ==
    Cardinality({i \in DOMAIN AddressesOfCall :
                    /\ Ipv6Match(AddressesOfCall[i]) <=> ip_version = "ipv6"
                    /\ wan_call[2][4][i] <=> status = "reachable"})

C23_WitnessPasses ==
    /\ wan_call[1] = "contingency_check"
    /\ wan_call[3] = "returned"
    /\ wan_call[5] = <<1, 0, 0, 1>>
    /\ PayloadOfCall = <<Item("ipv4", DDict(<<Item("unreachable", DInt(0))>>)),
                         Item("ipv6", DDict(<<Item("reachable", DInt(0))>>))>>

\* the expected count given as the text "1" and a tally of 1: the check fails
C23_WitnessText ==
    /\ wan_call[1] = "contingency_check"
    /\ wan_call[3] = "raised"
    /\ wan_call[5][1] = 1
    /\ PayloadOfCall = <<Item("ipv4", DDict(<<Item("reachable", DStr(1))>>))>>

\* no validation without an ACS_SERVER entry, with an empty one, or when
\* the checks are skipped: nothing is looked up or pinged
C23_NoValidation ==
    (wan_call[1] = "contingency_check" /\ wan_call[5] = <<>>) =>
        /\ wan_call[3] = "returned"
        /\ wan_call[2][1] \/ PayloadOfCall = <<>>
        /\ \A i \in DOMAIN wan_console : wan_console[i][1] \notin {"ping", "execute_command"}

-----------------------------------------------------------------------------
(* Specifications                                                          *)

\* every component but c is idle
OthersIdle(c) ==
    /\ IF c = "retry" THEN TRUE ELSE RetryIdle
    /\ IF c = "rx" THEN TRUE ELSE RxIdle
    /\ IF c = "pool" THEN TRUE ELSE PoolIdle
    /\ IF c = "gv" THEN TRUE ELSE GvIdle
    /\ IF c = "lg" THEN TRUE ELSE LgIdle
    /\ IF c = "dns" THEN TRUE ELSE DnsIdle
    /\ IF c = "cl" THEN TRUE ELSE ClIdle
    /\ IF c = "fw" THEN TRUE ELSE FwIdle
    /\ IF c = "sh" THEN TRUE ELSE ShIdle
    /\ IF c = "cx" THEN TRUE ELSE CxIdle
    /\ IF c = "ut" THEN TRUE ELSE UtIdle
    /\ IF c = "wan" THEN TRUE ELSE WanIdle

InitRetry == RetryInit /\ OthersIdle("retry")
NextRetry == RetryLoopCall \/ RetrySleep \/ RetryFinalCall
SpecRetry == InitRetry /\ [][NextRetry]_vars

InitRetryOnException == RxInit /\ OthersIdle("rx")
NextRetryOnException == RxGuardedCall \/ RxSleep \/ RxFinalCall
SpecRetryOnException == InitRetryOnException /\ [][NextRetryOnException]_vars

InitPool == PoolInit /\ OthersIdle("pool")
NextPool == PoolIterate \/ PoolReturn \/ PoolRaise
SpecPool == InitPool /\ [][NextPool]_vars

InitGetValue == GvInit /\ OthersIdle("gv")
NextGetValue == GvCall
SpecGetValue == InitGetValue /\ [][NextGetValue]_vars

InitDisableLogs == LgInit /\ OthersIdle("lg")
NextDisableLogs == LgEnter \/ LgExitAny
SpecDisableLogs == InitDisableLogs /\ [][NextDisableLogs]_vars

InitDns == DnsInit /\ OthersIdle("dns")
NextDns == DnsConfigure
SpecDns == InitDns /\ [][NextDns]_vars

InitCollectLogs == ClInit /\ OthersIdle("cl")
NextCollectLogs == ClCollect
SpecCollectLogs == InitCollectLogs /\ [][NextCollectLogs]_vars

InitGrowingLogs == ClGrowInit /\ OthersIdle("cl")
NextGrowingLogs == ClCollect \/ ClAppend
SpecGrowingLogs == InitGrowingLogs /\ [][NextGrowingLogs]_vars

InitFirewall == FwInit /\ OthersIdle("fw")
NextFirewall == FwAddDropRule
SpecFirewall == InitFirewall /\ [][NextFirewall]_vars

InitShell == ShInit /\ OthersIdle("sh")
NextShell ==
    \/ ShStart
    \/ ShDeviceInput
    \/ ShConsoleInput
    \/ ShSessionEnd
SpecShell == InitShell /\ [][NextShell]_vars

InitConsole == CxInit /\ OthersIdle("cx")
NextConsole ==
    \/ CxScp
    \/ CxReverseSsh
    \/ CxStartTcpdump
    \/ CxStopTcpdump
SpecConsole == InitConsole /\ [][NextConsole]_vars

InitUtil == UtInit /\ OthersIdle("ut")
NextUtil ==
    \/ UtGetNthMac
    \/ UtGetPytestName
    \/ UtHttpGet
SpecUtil == InitUtil /\ [][NextUtil]_vars

InitWan == WanInit /\ OthersIdle("wan")
NextWan ==
    \/ WanSetupWan
SpecWan == InitWan /\ [][NextWan]_vars

InitContingency == WanCheckInit /\ OthersIdle("wan")
NextContingency == WanContingencyCheck
SpecContingency == InitContingency /\ [][NextContingency]_vars

====
